---------------------------- MODULE Spec2Model ----------------------------
(***************************************************************************)
(* A model of the news-scraper OLAP star-schema builder                    *)
(* (src/olap_cube/builder): EntityExtractor, TagMatcher, BatchProcessor    *)
(* and StarSchemaBuilder.                                                  *)
(*                                                                         *)
(* Text is modelled at character level: a Python str is a sequence of      *)
(* one-character strings, so the regular expressions of the source are     *)
(* modelled by what they match.  Confidences are hundredths (0.9 is 90).   *)
(***************************************************************************)
EXTENDS Integers, Sequences, FiniteSets, TLC

(***************************************************************************)
(* Characters and the str methods the source uses.                         *)
(***************************************************************************)
LowerLetters == {"a", "b", "c", "d", "e", "f", "g", "h", "i", "j", "k", "l", "m", "n", "o", "p", "q", "r", "s", "t", "u", "v", "w", "x", "y", "z"}
UpperLetters == {"A", "B", "C", "D", "E", "F", "G", "H", "I", "J", "K", "L", "M", "N", "O", "P", "Q", "R", "S", "T", "U", "V", "W", "X", "Y", "Z"}
LowerOf == ("A" :> "a") @@ ("B" :> "b") @@ ("C" :> "c") @@ ("D" :> "d") @@ ("E" :> "e") @@ ("F" :> "f") @@ ("G" :> "g") @@ ("H" :> "h") @@ ("I" :> "i") @@ ("J" :> "j") @@ ("K" :> "k") @@ ("L" :> "l") @@ ("M" :> "m") @@ ("N" :> "n") @@ ("O" :> "o") @@ ("P" :> "p") @@ ("Q" :> "q") @@ ("R" :> "r") @@ ("S" :> "s") @@ ("T" :> "t") @@ ("U" :> "u") @@ ("V" :> "v") @@ ("W" :> "w") @@ ("X" :> "x") @@ ("Y" :> "y") @@ ("Z" :> "z")
UpperOf == ("a" :> "A") @@ ("b" :> "B") @@ ("c" :> "C") @@ ("d" :> "D") @@ ("e" :> "E") @@ ("f" :> "F") @@ ("g" :> "G") @@ ("h" :> "H") @@ ("i" :> "I") @@ ("j" :> "J") @@ ("k" :> "K") @@ ("l" :> "L") @@ ("m" :> "M") @@ ("n" :> "N") @@ ("o" :> "O") @@ ("p" :> "P") @@ ("q" :> "Q") @@ ("r" :> "R") @@ ("s" :> "S") @@ ("t" :> "T") @@ ("u" :> "U") @@ ("v" :> "V") @@ ("w" :> "W") @@ ("x" :> "X") @@ ("y" :> "Y") @@ ("z" :> "Z")

\* self.company_suffixes
company_suffixes ==
    {  <<"i", "n", "c">>,
       <<"i", "n", "c", "o", "r", "p", "o", "r", "a", "t", "e", "d">>,
       <<"c", "o", "r", "p">>,
       <<"c", "o", "r", "p", "o", "r", "a", "t", "i", "o", "n">>,
       <<"l", "t", "d">>,
       <<"l", "i", "m", "i", "t", "e", "d">>,
       <<"l", "l", "c">>,
       <<"l", "l", "p">>,
       <<"c", "o">>,
       <<"c", "o", "m", "p", "a", "n", "y">>,
       <<"g", "r", "o", "u", "p">>,
       <<"h", "o", "l", "d", "i", "n", "g", "s">>,
       <<"l", "a", "b", "s">>,
       <<"l", "a", "b", "o", "r", "a", "t", "o", "r", "i", "e", "s">>,
       <<"t", "h", "e", "r", "a", "p", "e", "u", "t", "i", "c", "s">>,
       <<"p", "h", "a", "r", "m", "a">>,
       <<"b", "i", "o", "t", "e", "c", "h">>,
       <<"b", "i", "o", "s", "c", "i", "e", "n", "c", "e", "s">>,
       <<"b", "i", "o", "p", "h", "a", "r", "m", "a", "c", "e", "u", "t", "i", "c", "a", "l", "s">>,
       <<"p", "h", "a", "r", "m", "a", "c", "e", "u", "t", "i", "c", "a", "l", "s">>,
       <<"b", "i", "o", "t", "e", "c", "h", "n", "o", "l", "o", "g", "y">>,
       <<"t", "e", "c", "h", "n", "o", "l", "o", "g", "i", "e", "s">>,
       <<"s", "o", "l", "u", "t", "i", "o", "n", "s">>,
       <<"s", "y", "s", "t", "e", "m", "s">>,
       <<"i", "n", "t", "e", "r", "n", "a", "t", "i", "o", "n", "a", "l">>,
       <<"g", "l", "o", "b", "a", "l">>,
       <<"a", "g">>,
       <<"s", "a">>,
       <<"n", "v">>,
       <<"p", "l", "c">>,
       <<"g", "m", "b", "h">>,
       <<"k", "k">>,
       <<"l", "t", "d", "a">>,
       <<"s", "r", "l">>,
       <<"s", "p", "a">>,
       <<"s", "a", "s">> }

\* one order in which iterating self.company_suffixes and sorting the result by
\* falling length can leave the suffixes: those of one length from a to z
SuffixesByLength ==
    << <<"b", "i", "o", "p", "h", "a", "r", "m", "a", "c", "e", "u", "t", "i", "c", "a", "l", "s">>,
       <<"p", "h", "a", "r", "m", "a", "c", "e", "u", "t", "i", "c", "a", "l", "s">>,
       <<"b", "i", "o", "t", "e", "c", "h", "n", "o", "l", "o", "g", "y">>,
       <<"i", "n", "t", "e", "r", "n", "a", "t", "i", "o", "n", "a", "l">>,
       <<"i", "n", "c", "o", "r", "p", "o", "r", "a", "t", "e", "d">>,
       <<"l", "a", "b", "o", "r", "a", "t", "o", "r", "i", "e", "s">>,
       <<"t", "e", "c", "h", "n", "o", "l", "o", "g", "i", "e", "s">>,
       <<"t", "h", "e", "r", "a", "p", "e", "u", "t", "i", "c", "s">>,
       <<"b", "i", "o", "s", "c", "i", "e", "n", "c", "e", "s">>,
       <<"c", "o", "r", "p", "o", "r", "a", "t", "i", "o", "n">>,
       <<"s", "o", "l", "u", "t", "i", "o", "n", "s">>,
       <<"h", "o", "l", "d", "i", "n", "g", "s">>,
       <<"b", "i", "o", "t", "e", "c", "h">>,
       <<"c", "o", "m", "p", "a", "n", "y">>,
       <<"l", "i", "m", "i", "t", "e", "d">>,
       <<"s", "y", "s", "t", "e", "m", "s">>,
       <<"g", "l", "o", "b", "a", "l">>,
       <<"p", "h", "a", "r", "m", "a">>,
       <<"g", "r", "o", "u", "p">>,
       <<"c", "o", "r", "p">>,
       <<"g", "m", "b", "h">>,
       <<"l", "a", "b", "s">>,
       <<"l", "t", "d", "a">>,
       <<"i", "n", "c">>,
       <<"l", "l", "c">>,
       <<"l", "l", "p">>,
       <<"l", "t", "d">>,
       <<"p", "l", "c">>,
       <<"s", "a", "s">>,
       <<"s", "p", "a">>,
       <<"s", "r", "l">>,
       <<"a", "g">>,
       <<"c", "o">>,
       <<"k", "k">>,
       <<"n", "v">>,
       <<"s", "a">> >>

Digits == {"0", "1", "2", "3", "4", "5", "6", "7", "8", "9"}
\* str.isspace / the regex class \s
WhiteSpace == {" ", "\t", "\n"}
\* the regex class \w
WordChars == LowerLetters \cup UpperLetters \cup Digits \cup {"_"}

IsSpace(c) == c \in WhiteSpace
IsAlnum(c) == c \in LowerLetters \cup UpperLetters \cup Digits
IsWordChar(c) == c \in WordChars

SetMin(S) == CHOOSE x \in S : \A y \in S : x <= y
SetMax(S) == CHOOSE x \in S : \A y \in S : x >= y

\* str.lower()
ToLowerChar(c) == IF c \in DOMAIN LowerOf THEN LowerOf[c] ELSE c
StrLower(s) == [i \in 1..Len(s) |-> ToLowerChar(s[i])]

\* s[from..to] with Python's clipping; the empty sequence when from > to
Slice(s, from, to) ==
    LET a == IF from < 1 THEN 1 ELSE from
        b == IF to > Len(s) THEN Len(s) ELSE to
    IN  IF a > b THEN <<>> ELSE SubSeq(s, a, b)

\* str.strip()
Strip(s) ==
    LET keep == {i \in 1..Len(s) : ~IsSpace(s[i])}
    IN  IF keep = {} THEN <<>> ELSE SubSeq(s, SetMin(keep), SetMax(keep))

\* the literal lit occurs in s at position i
MatchAt(s, i, lit) ==
    /\ i >= 1
    /\ i + Len(lit) - 1 <= Len(s)
    /\ \A k \in 1..Len(lit) : s[i + k - 1] = lit[k]

\* Python's "lit in s"
Contains(s, lit) == \E i \in 1..(Len(s) - Len(lit) + 1) : MatchAt(s, i, lit)

\* str.endswith
EndsWith(s, lit) == Len(lit) <= Len(s) /\ MatchAt(s, Len(s) - Len(lit) + 1, lit)

\* the regex assertion \b between s[i-1] and s[i] (i in 1..Len(s)+1)
WordBoundary(s, i) ==
    LET before == i > 1 /\ i - 1 <= Len(s) /\ IsWordChar(s[i - 1])
        after  == i >= 1 /\ i <= Len(s) /\ IsWordChar(s[i])
    IN  before # after

\* the first index >= i of s that holds no whitespace (Len(s)+1 if none)
SkipSpaces(s, i) ==
    LET rest == {j \in i..Len(s) : ~IsSpace(s[j])}
    IN  IF rest = {} THEN Len(s) + 1 ELSE SetMin(rest)

(***************************************************************************)
(* EntityExtractor._normalize_entity_name                                  *)
(***************************************************************************)
\* re.sub(r'\s*&\s*', ' and ', s), scanning from position i
RECURSIVE SubAmpersand(_, _)
SubAmpersand(s, i) ==
    IF i > Len(s) THEN <<>>
    ELSE LET j == SkipSpaces(s, i)
         IN  IF j <= Len(s) /\ s[j] = "&"
             THEN <<" ", "a", "n", "d", " ">> \o SubAmpersand(s, SkipSpaces(s, j + 1))
             ELSE <<s[i]>> \o SubAmpersand(s, i + 1)

\* re.sub(r'\s+and\s+', 'and', s), scanning from position i
RECURSIVE SubAnd(_, _)
SubAnd(s, i) ==
    IF i > Len(s) THEN <<>>
    ELSE LET j == SkipSpaces(s, i)
         IN  IF /\ IsSpace(s[i])
                /\ MatchAt(s, j, <<"a", "n", "d">>)
                /\ j + 3 <= Len(s)
                /\ IsSpace(s[j + 3])
             THEN <<"a", "n", "d">> \o SubAnd(s, SkipSpaces(s, j + 3))
             ELSE <<s[i]>> \o SubAnd(s, i + 1)

\* the characters [\s\.,;:] that may follow a suffix up to the end of the name
SuffixTail == WhiteSpace \cup {".", ",", ";", ":"}

\* the last index <= i of s that holds a character outside SuffixTail (0 if none)
RECURSIVE LastBodyIndex(_, _)
LastBodyIndex(s, i) ==
    IF i = 0 \/ s[i] \notin SuffixTail THEN i ELSE LastBodyIndex(s, i - 1)

\* the last index <= i of s that holds no whitespace (0 if none)
RECURSIVE LastNonSpace(_, _)
LastNonSpace(s, i) ==
    IF i = 0 \/ ~IsSpace(s[i]) THEN i ELSE LastNonSpace(s, i - 1)

\* the suffix rule without the whitespace it requires before the suffix
StripSuffixUnanchored(s, suffix) ==
    LET e == LastBodyIndex(s, Len(s))
        b == e - Len(suffix) + 1
    IN  IF b >= 2 /\ MatchAt(s, b, suffix)
        THEN Slice(s, 1, LastNonSpace(s, b - 1))
        ELSE s

\* re.sub(r'\s+' + suffix + r'[\s\.,;:]*$', '', s): the suffix has to end at the
\* last character outside SuffixTail and to follow at least one whitespace; the
\* match starts where that whitespace starts
StripSuffix(s, suffix) ==
    LET e == LastBodyIndex(s, Len(s))
        b == e - Len(suffix) + 1
    IN  IF b >= 2 /\ IsSpace(s[b - 1]) /\ MatchAt(s, b, suffix)
        THEN Slice(s, 1, LastNonSpace(s, b - 1))
        ELSE s

\* the loop over the suffixes, in the given order
RECURSIVE StripSuffixes(_, _, _)
StripSuffixes(s, order, k) ==
    IF k > Len(order) THEN s
    ELSE LET stripped == StripSuffix(s, order[k])
         IN  IF Len(stripped) >= 0 THEN StripSuffixes(stripped, order, k + 1) ELSE s

\* the characters removed by re.sub(r'[\s\-\.,;:+\'"]+', '', s)
Separators == WhiteSpace \cup {"-", ".", ",", ";", ":", "+", "'", "\""}
NotSeparator(c) == c \notin Separators

\* re.sub(r'^[^a-z0-9]+|[^a-z0-9]+$', '', s)
StripNonAlnum(s) ==
    LET keep == {i \in 1..Len(s) : s[i] \in LowerLetters \cup Digits}
    IN  IF keep = {} THEN <<>> ELSE SubSeq(s, SetMin(keep), SetMax(keep))

\* _normalize_entity_name with the suffixes tried in the given order
NormalizeWith(order, name) ==
    LET stripped == Strip(name)
        lowered  == StrLower(stripped)
        amp      == SubAmpersand(lowered, 1)
        conj     == SubAnd(amp, 1)
        nosuffix == StripSuffixes(conj, order, 1)
        folded   == SelectSeq(nosuffix, NotSeparator)
    IN  IF stripped = <<>> THEN <<>> ELSE StripNonAlnum(folded)

(***************************************************************************)
(* Iteration over sets.  The order in which a Python set of strings, or of *)
(* tuples that hold strings, gives its elements follows from the hash seed *)
(* of the process and from the way the set was built: two sets of the same *)
(* elements that were filled in different orders can be iterated in        *)
(* different orders within one process, a set filled the same way is       *)
(* iterated the same way every time within a process, and nothing is fixed *)
(* from one process to the next.  A set is therefore the sequence of its   *)
(* elements in the order in which they were first added, and hash_seed is  *)
(* what the seed of the process decides for each such sequence:            *)
(*   suffixes   the suffixes self.company_suffixes gives first, in order;  *)
(*   companies  the order of self.known_companies as it was loaded;        *)
(*   tags       the order of every set of tag names that is iterated;      *)
(*   entities   the order of every set of found entities that is iterated. *)
(* Where one article is processed, Init draws hash_seed for the sets the   *)
(* article makes the program iterate.  In the pipeline Init draws the      *)
(* order of the suffixes, and the order of a set is drawn when the run     *)
(* first iterates a set built that way and kept for the rest of the        *)
(* process.                                                                *)
(***************************************************************************)
VARIABLE hash_seed

\* the range of a sequence
Range(s) == {s[i] : i \in 1..Len(s)}

RECURSIVE Flatten(_)
Flatten(pieces) ==
    IF pieces = <<>> THEN <<>> ELSE Head(pieces) \o Flatten(Tail(pieces))

\* set.add(x) on a set built so far
SetAdd(built, x) == IF x \in Range(built) THEN built ELSE Append(built, x)

\* set.update(items), items a list: its elements are added from the k-th on
RECURSIVE SetUpdate(_, _, _)
SetUpdate(built, items, k) ==
    IF k > Len(items) THEN built ELSE SetUpdate(SetAdd(built, items[k]), items, k + 1)

\* all the orders in which the elements of a set can be iterated
RECURSIVE Perms(_)
Perms(S) ==
    IF S = {} THEN {<<>>}
    ELSE UNION {{<<x>> \o rest : rest \in Perms(S \ {x})} : x \in S}

\* for x in built: a set of at least two elements gives them in the order the
\* seed decides for the way it was built
IterationOrder(built, orders) == IF Len(built) < 2 THEN built ELSE orders[built]

\* every choice of an order for each of the sets built
OrdersOver(sets) ==
    {f \in [sets -> UNION {Perms(Range(built)) : built \in sets}] :
        \A built \in sets : f[built] \in Perms(Range(built))}

\* for suffix in self.company_suffixes: the suffixes of first, in that order, the
\* others behind them
SuffixIteration(first) ==
    first \o SelectSeq(SuffixesByLength, LAMBDA suffix : suffix \notin Range(first))

\* sorted(seq, key=len, reverse=True): the sort is stable, so strings of one
\* length keep the order they have in seq
SortedByLength(seq) ==
    LET longest == SetMax({Len(seq[k]) : k \in 1..Len(seq)})
    IN  IF seq = <<>> THEN <<>>
        ELSE Flatten([n \in 1..longest |->
                         SelectSeq(seq, LAMBDA s : Len(s) = longest + 1 - n)])

\* sorted(self.company_suffixes, key=len, reverse=True) under a seed
SortedSuffixes(seed) ==
    IF seed.suffixes = <<>> THEN SuffixesByLength
    ELSE SortedByLength(SuffixIteration(seed.suffixes))

\* the suffixes that stand in a text as whole words: the others cannot be
\* stripped from a name taken from the text
HeldSuffixes(text) ==
    LET lowered == StrLower(text)
        starts == {i \in 1..Len(text) : WordBoundary(text, i) /\ IsWordChar(text[i])}
    IN  {suffix \in company_suffixes :
            \E i \in starts :
                MatchAt(lowered, i, suffix) /\ WordBoundary(text, i + Len(suffix))}

\* the suffixes of a set that share their length with another one of the set:
\* the order in which the loop tries them is the order of the iteration
Contended(suffixes) ==
    {s \in suffixes : \E t \in suffixes : t # s /\ Len(t) = Len(s)}

\* the sets among those built that have an order to draw
Iterated(sets) == {built \in sets : Len(built) >= 2}

\* the seeds that order self.company_suffixes and self.known_companies as seed
\* does and differ on the given sets
SeedsOf(seed, tag_sets, entity_sets) ==
    {[suffixes |-> seed.suffixes, companies |-> seed.companies, tags |-> t, entities |-> e] :
        t \in OrdersOver(Iterated(tag_sets)), e \in OrdersOver(Iterated(entity_sets))}

\* the sets both seeds order get the same orders from them
Compatible(seed, other) ==
    /\ seed.suffixes = other.suffixes
    /\ seed.companies = other.companies
    /\ \A S \in DOMAIN seed.tags \cap DOMAIN other.tags : seed.tags[S] = other.tags[S]
    /\ \A S \in DOMAIN seed.entities \cap DOMAIN other.entities :
           seed.entities[S] = other.entities[S]

\* the orders of known with those of found for the sets known does not order
MergeOrders(known, found) ==
    [S \in DOMAIN known \cup DOMAIN found |-> IF S \in DOMAIN known THEN known[S] ELSE found[S]]

\* the seed once the orders of the sets of found are drawn as found has them
Reveal(seed, found) ==
    [suffixes |-> seed.suffixes,
     companies |-> seed.companies,
     tags |-> MergeOrders(seed.tags, found.tags),
     entities |-> MergeOrders(seed.entities, found.entities)]

\* seed orders every set that row_seed orders, and as row_seed does
Agrees(seed, row_seed) ==
    /\ seed.suffixes = row_seed.suffixes
    /\ seed.companies = row_seed.companies
    /\ \A S \in DOMAIN row_seed.tags : S \in DOMAIN seed.tags /\ seed.tags[S] = row_seed.tags[S]
    /\ \A S \in DOMAIN row_seed.entities :
           S \in DOMAIN seed.entities /\ seed.entities[S] = row_seed.entities[S]

\* of the outcomes of a step under every order of the sets it iterates, the
\* one under the seed
RowUnder(rows, seed) == rows[CHOOSE row_seed \in DOMAIN rows : Agrees(seed, row_seed)]

\* the seeds a process of seed seed can turn out to have when it has iterated
\* the sets of rows[k], rows[k + 1], ... as well
RECURSIVE SeedsAfter(_, _, _)
SeedsAfter(rows, k, seed) ==
    IF k > Len(rows) THEN {seed}
    ELSE UNION {SeedsAfter(rows, k + 1, Reveal(seed, found)) :
                   found \in {row_seed \in DOMAIN rows[k] : Compatible(seed, row_seed)}}

\* the seed that puts the given suffixes first, and every order of them
SuffixSeed(first) ==
    [suffixes |-> first, companies |-> <<>>, tags |-> <<>>, entities |-> <<>>]
SuffixSeeds(suffixes) == {SuffixSeed(first) : first \in Perms(suffixes)}

\* the suffixes whose place in the iteration of self.company_suffixes can change
\* the normalized form of a name taken from one of the texts
ContendedIn(texts) == UNION {Contended(HeldSuffixes(text)) : text \in texts}

\* EntityExtractor._normalize_entity_name in the process of the run
normalize_entity_name(name) == NormalizeWith(SortedSuffixes(hash_seed), name)

(***************************************************************************)
(* Applying _normalize_entity_name to names and to their lexical variants. *)
(* A name is drawn as a concatenation of at most MaxPieces pieces.         *)
(***************************************************************************)
MaxPieces == 3

NamePieces ==
    { <<"A", "s", "t", "r", "a">>, <<"Z", "e", "n", "e", "c", "a">>,
      <<" ">>, <<"&">>, <<"a", "n", "d">>, <<"I", "n", "c">>,
      <<"c", "o", "r", "p">>, <<".">>, <<"(">> }

\* suffixes appended by the trailing-suffix variant, as they are written in names
VariantSuffixes == { <<"I", "n", "c">>, <<"L", "t", "d", ".">>, <<"c", "o", "r", "p">> }

\* separators inserted by the spacing variant
VariantSeparators == { <<" ">>, <<"-">>, <<".", " ">> }

PieceSeqs == UNION {[1..n -> NamePieces] : n \in 0..MaxPieces}

\* str.upper() on the letters of the model
ToUpperChar(c) == IF c \in DOMAIN UpperOf THEN UpperOf[c] ELSE c
StrUpper(s) == [i \in 1..Len(s) |-> ToUpperChar(s[i])]

\* pieces with piece k replaced by rep
ReplacePiece(pieces, k, rep) == [i \in 1..Len(pieces) |-> IF i = k THEN rep ELSE pieces[i]]

\* pieces with sep inserted after piece k
InsertPiece(pieces, k, sep) == SubSeq(pieces, 1, k) \o <<sep>> \o SubSeq(pieces, k + 1, Len(pieces))

\* a piece that is a word of a name: a corporate suffix or a plain word
IsNameWord(p) == IsAlnum(p[1]) /\ StrLower(p) # <<"a", "n", "d">>
IsPlainWord(p) == IsNameWord(p) /\ StrLower(p) \notin company_suffixes

\* names that end in several suffixes of one length
NormScenarios ==
    { << <<"X">>, <<" ">>, <<"I", "n", "c">>, <<" ">>, <<"L", "L", "C">> >>,
      << <<"X">>, <<" ">>, <<"I", "n", "c">>, <<" ">>, <<"L", "L", "C">>, <<" ">>,
         <<"L", "t", "d">> >>,
      << <<"X">>, <<" ">>, <<"C", "o">>, <<" ">>, <<"A", "G">> >> }

\* the suffixes whose place in the iteration of self.company_suffixes can change
\* the normalized form of a name or of one of its variants
NormContended(pieces) ==
    UNION {Contended(HeldSuffixes(Flatten(pieces) \o <<" ">> \o suffix)) :
              suffix \in VariantSuffixes}

(***************************************************************************)
(* More of str and re, used by TagMatcher and EntityExtractor.             *)
(***************************************************************************)
\* re.split(r'[;,|]', s) for the given delimiter set
RECURSIVE SplitOn(_, _)
SplitOn(s, delims) ==
    LET hits == {i \in 1..Len(s) : s[i] \in delims}
    IN  IF hits = {} THEN <<s>>
        ELSE <<Slice(s, 1, SetMin(hits) - 1)>>
                 \o SplitOn(Slice(s, SetMin(hits) + 1, Len(s)), delims)

\* the first index >= i of s that holds whitespace (Len(s)+1 if none)
NextSpace(s, i) ==
    LET rest == {j \in i..Len(s) : IsSpace(s[j])}
    IN  IF rest = {} THEN Len(s) + 1 ELSE SetMin(rest)

\* str.split(): the whitespace-separated parts of s from position i on
RECURSIVE SplitWords(_, _)
SplitWords(s, i) ==
    LET b == SkipSpaces(s, i)
    IN  IF b > Len(s) THEN <<>>
        ELSE <<SubSeq(s, b, NextSpace(s, b) - 1)>> \o SplitWords(s, NextSpace(s, b))

\* sep.join(parts)
RECURSIVE Join(_, _)
Join(parts, sep) ==
    IF parts = <<>> THEN <<>>
    ELSE IF Len(parts) = 1 THEN parts[1]
    ELSE parts[1] \o sep \o Join(Tail(parts), sep)

\* the first index >= i of s that holds no word character (Len(s)+1 if none)
NextNonWord(s, i) ==
    LET rest == {j \in i..Len(s) : ~IsWordChar(s[j])}
    IN  IF rest = {} THEN Len(s) + 1 ELSE SetMin(rest)

\* set(re.findall(r'\b\w+\b', s)): the maximal runs of word characters
WordRuns(s) ==
    {SubSeq(s, b, NextNonWord(s, b) - 1) :
        b \in {i \in 1..Len(s) : IsWordChar(s[i]) /\ (i = 1 \/ ~IsWordChar(s[i - 1]))}}

\* lit occurs in s at position i, letter case ignored (re.IGNORECASE)
MatchAtCI(s, i, lit) ==
    /\ i >= 1
    /\ i + Len(lit) - 1 <= Len(s)
    /\ \A k \in 1..Len(lit) : ToLowerChar(s[i + k - 1]) = ToLowerChar(lit[k])

(***************************************************************************)
(* TagMatcher.  tag_definitions is a sequence of rows                      *)
(* [Tag_Name, Keywords, Tag_Category, Tag_Domain]; tag names are unique.   *)
(***************************************************************************)
KeywordDelimiters == {";", ",", "|"}

\* self.keyword_to_tags[kw]: the list of the tags that own the lowercase keyword
\* kw, in the order of the definitions, a tag's own name being one of its
\* keywords; tags without keywords are not indexed.  A tag the list holds more
\* than once is given once: the list is only ever added to a set
keyword_to_tags(tag_definitions, kw) ==
    LET owners == SelectSeq([t \in 1..Len(tag_definitions) |-> tag_definitions[t]],
                            LAMBDA tag_def :
                                /\ tag_def.Keywords # <<>>
                                /\ \/ kw = StrLower(tag_def.Tag_Name)
                                   \/ \E k \in 1..Len(tag_def.Keywords) :
                                         kw = StrLower(tag_def.Keywords[k]))
    IN  [t \in 1..Len(owners) |-> owners[t].Tag_Name]

NanLiteral == <<"n", "a", "n">>
NoneLiteral == <<"n", "o", "n", "e">>

\* the for loop of _check_matched_keywords_column from the k-th keyword on:
\* matched_tags.update(self.keyword_to_tags[keyword])
RECURSIVE MatchKeywords(_, _, _, _)
MatchKeywords(tag_definitions, keywords_list, k, matched_tags) ==
    IF k > Len(keywords_list) THEN matched_tags
    ELSE IF Strip(keywords_list[k]) = <<>>
    THEN MatchKeywords(tag_definitions, keywords_list, k + 1, matched_tags)
    ELSE MatchKeywords(tag_definitions, keywords_list, k + 1,
                       SetUpdate(matched_tags,
                                 keyword_to_tags(tag_definitions,
                                                 StrLower(Strip(keywords_list[k]))),
                                 1))

\* TagMatcher._check_matched_keywords_column: the set of the tags of the hint
\* column, in the order in which they were added
check_matched_keywords_column(tag_definitions, article) ==
    LET matched_keywords == Strip(article.matched_keywords)
    IN  IF matched_keywords = <<>> \/ StrLower(matched_keywords) = NanLiteral THEN <<>>
        ELSE MatchKeywords(tag_definitions, SplitOn(matched_keywords, KeywordDelimiters),
                           1, <<>>)

\* the alternatives of \b(?:kw1|kw2|...)\b, compiled with re.IGNORECASE, that
\* match at position i of text
KeywordsAt(text, keywords, i) ==
    {k \in 1..Len(keywords) :
        /\ WordBoundary(text, i)
        /\ MatchAtCI(text, i, keywords[k])
        /\ WordBoundary(text, i + Len(keywords[k]))}

\* pattern.findall(search_text): the non-overlapping matches from position i on,
\* leftmost first, the first alternative that matches being the one taken
RECURSIVE FindAll(_, _, _)
FindAll(text, keywords, i) ==
    LET starts == {j \in i..Len(text) : KeywordsAt(text, keywords, j) # {}}
        j == SetMin(starts)
        kw == keywords[SetMin(KeywordsAt(text, keywords, j))]
    IN  IF starts = {} THEN <<>>
        ELSE <<SubSeq(text, j, j + Len(kw) - 1)>> \o FindAll(text, keywords, j + Len(kw))

IntMin(a, b) == IF a <= b THEN a ELSE b
IntMax(a, b) == IF a >= b THEN a ELSE b

\* medical_terms of _calculate_match_confidence
medical_terms ==
    { <<"c", "a", "n", "c", "e", "r">>, <<"t", "h", "e", "r", "a", "p", "y">>,
      <<"t", "r", "e", "a", "t", "m", "e", "n", "t">>, <<"d", "r", "u", "g">>,
      <<"c", "l", "i", "n", "i", "c", "a", "l">> }

\* the row of tag_definitions with the given name
TagDefOf(tag_definitions, tag_name) ==
    LET rows == {t \in 1..Len(tag_definitions) : tag_definitions[t].Tag_Name = tag_name}
    IN  tag_definitions[SetMin(rows)]

\* base_confidence = min(0.8, 0.4 + (unique_matches * 0.1))
BaseConfidence(unique_matches) == IntMin(80, 40 + unique_matches * 10)

\* base_confidence = min(1.0, base_confidence + 0.2) when a match is among the
\* words of the first 20 parts of a text of more than 10 parts
HeadlineBoost(base, matches, search_text) ==
    LET text_parts == SplitWords(search_text, 1)
        headline_estimate == Join(SubSeq(text_parts, 1, IntMin(20, Len(text_parts))), <<" ">>)
    IN  IF Len(text_parts) > 10 /\ (Range(matches) \cap WordRuns(headline_estimate)) # {}
        THEN IntMin(100, base + 20)
        ELSE base

\* the Event boost without its cap at 1.0
EventBoostUncapped(base, tag_category, unique_matches) ==
    IF tag_category = "Event" /\ unique_matches > 1 THEN base + 10 ELSE base

\* base_confidence = min(1.0, base_confidence + 0.1) for an Event tag with more
\* than one unique match
EventBoost(base, tag_category, unique_matches) ==
    IF tag_category = "Event" /\ unique_matches > 1 THEN IntMin(100, base + 10) ELSE base

\* base_confidence = min(1.0, base_confidence + 0.1) for a Therapy tag when a
\* medical term occurs in the text
TherapyBoost(base, tag_category, search_text) ==
    IF tag_category = "Therapy" /\ \E term \in medical_terms : Contains(search_text, term)
    THEN IntMin(100, base + 10)
    ELSE base

\* TagMatcher._calculate_match_confidence, in hundredths
calculate_match_confidence(tag_definitions, tag_name, matches, search_text) ==
    LET unique_matches == Cardinality(Range(matches))
        tag_category == TagDefOf(tag_definitions, tag_name).Tag_Category
    IN  IF matches = <<>> THEN 0
        ELSE TherapyBoost(
                 EventBoost(
                     HeadlineBoost(BaseConfidence(unique_matches), matches, search_text),
                     tag_category, unique_matches),
                 tag_category, search_text)

\* TagMatcher._search_text_for_tags: <<tag name, confidence>> for every tag whose
\* pattern matches, in the order of self.tag_patterns
RECURSIVE search_text_for_tags(_, _, _)
search_text_for_tags(tag_definitions, search_text, t) ==
    IF t > Len(tag_definitions) \/ search_text = <<>> THEN <<>>
    ELSE LET tag == tag_definitions[t]
             matches == IF tag.Keywords = <<>> THEN <<>>
                        ELSE FindAll(search_text, tag.Keywords, 1)
         IN  (IF matches = <<>> THEN <<>>
              ELSE << <<tag.Tag_Name,
                        calculate_match_confidence(tag_definitions, tag.Tag_Name,
                                                   matches, search_text)>> >>)
             \o search_text_for_tags(tag_definitions, search_text, t + 1)

\* the confidence a list of <<name, confidence>> gives to name (-1 if none)
ConfidenceIn(pairs, name) ==
    LET at == {k \in 1..Len(pairs) : pairs[k][1] = name}
    IN  IF at = {} THEN -1 ELSE pairs[SetMin(at)][2]

\* sorted(pairs, key=confidence, reverse=True): a stable insertion sort
RECURSIVE SortByConfidence(_)
SortByConfidence(pairs) ==
    IF pairs = <<>> THEN <<>>
    ELSE LET rest == SortByConfidence(Tail(pairs))
             ahead == {k \in 1..Len(rest) : rest[k][2] > Head(pairs)[2]}
             n == Cardinality(ahead)
         IN  SubSeq(rest, 1, n) \o <<Head(pairs)>> \o SubSeq(rest, n + 1, Len(rest))

\* TagMatcher.match_article_to_tags when the set of the tags of the hint column
\* is iterated in the order from_column: matched_tags takes the tags of the hint
\* column at 0.9, in the order in which the set of them is iterated, then the
\* tags of the text search at their confidence, the higher one when both match;
\* the sort by confidence is stable
MatchOrdered(from_column, from_text) ==
    LET merged == [k \in 1..Len(from_column) |->
                      <<from_column[k], IntMax(90, ConfidenceIn(from_text, from_column[k]))>>]
        text_rows == SelectSeq(from_text, LAMBDA row : row[1] \notin Range(from_column))
    IN  SortByConfidence(merged \o text_rows)

\* TagMatcher.match_article_to_tags in a process of seed seed
match_article_to_tags(tag_definitions, article, combined_normalized, seed) ==
    MatchOrdered(IterationOrder(check_matched_keywords_column(tag_definitions, article),
                                seed.tags),
                 search_text_for_tags(tag_definitions, combined_normalized, 1))

\* self.filter_words
filter_words ==
    { <<"a", "l", "z", "h", "e", "i", "m", "e", "r">>,
      <<"o", "n", "c", "o", "l", "o", "g", "y">>,
      <<"n", "e", "u", "r", "o", "l", "o", "g", "y">>,
      <<"i", "m", "m", "u", "n", "o", "l", "o", "g", "y">>,
      <<"h", "e", "m", "a", "t", "o", "l", "o", "g", "y">>,
      <<"d", "i", "a", "b", "e", "t", "e", "s">>,
      <<"c", "a", "n", "c", "e", "r">>,
      <<"t", "h", "e", "r", "a", "p", "e", "u", "t", "i", "c">>,
      <<"d", "r", "u", "g">>,
      <<"t", "r", "e", "a", "t", "m", "e", "n", "t">>,
      <<"t", "h", "e", "r", "a", "p", "y">>,
      <<"p", "a", "t", "i", "e", "n", "t">>,
      <<"c", "l", "i", "n", "i", "c", "a", "l">>,
      <<"t", "r", "i", "a", "l">>,
      <<"a", "p", "p", "r", "o", "v", "a", "l">>,
      <<"f", "d", "a">>,
      <<"e", "m", "a">>,
      <<"r", "e", "g", "u", "l", "a", "t", "o", "r", "y">>,
      <<"d", "i", "s", "e", "a", "s", "e">>,
      <<"d", "i", "s", "o", "r", "d", "e", "r">>,
      <<"s", "y", "n", "d", "r", "o", "m", "e">>,
      <<"c", "o", "n", "d", "i", "t", "i", "o", "n">>,
      <<"b", "i", "o", "m", "a", "r", "k", "e", "r">> }

\* the suffix alternation of the first pattern of _extract_known_companies_from_text
TextSuffixes ==
    << <<"i", "n", "c">>,
       <<"i", "n", "c", "o", "r", "p", "o", "r", "a", "t", "e", "d">>,
       <<"c", "o", "r", "p">>,
       <<"c", "o", "r", "p", "o", "r", "a", "t", "i", "o", "n">>,
       <<"l", "t", "d">>,
       <<"l", "i", "m", "i", "t", "e", "d">>,
       <<"l", "l", "c">>,
       <<"p", "h", "a", "r", "m", "a", "c", "e", "u", "t", "i", "c", "a", "l", "s">>,
       <<"p", "h", "a", "r", "m", "a">>,
       <<"b", "i", "o", "t", "e", "c", "h">>,
       <<"b", "i", "o", "t", "e", "c", "h", "n", "o", "l", "o", "g", "y">>,
       <<"t", "h", "e", "r", "a", "p", "e", "u", "t", "i", "c", "s">> >>

\* the suffix alternation of the pattern of _count_entity_mentions
MentionSuffixes ==
    << <<"i", "n", "c">>,
       <<"i", "n", "c", "o", "r", "p", "o", "r", "a", "t", "e", "d">>,
       <<"c", "o", "r", "p">>,
       <<"c", "o", "r", "p", "o", "r", "a", "t", "i", "o", "n">>,
       <<"l", "t", "d">>,
       <<"l", "i", "m", "i", "t", "e", "d">>,
       <<"l", "l", "c">>,
       <<"p", "h", "a", "r", "m", "a", "c", "e", "u", "t", "i", "c", "a", "l", "s">>,
       <<"p", "h", "a", "r", "m", "a">>,
       <<"b", "i", "o", "t", "e", "c", "h">>,
       <<"b", "i", "o", "t", "e", "c", "h", "n", "o", "l", "o", "g", "y">>,
       <<"t", "h", "e", "r", "a", "p", "e", "u", "t", "i", "c", "s">>,
       <<"b", "i", "o", "s", "c", "i", "e", "n", "c", "e", "s">> >>

\* org_patterns of _classify_entity_type
org_patterns ==
    { <<"f", "d", "a">>,
      <<"e", "m", "a">>,
      <<"w", "h", "o">>,
      <<"n", "i", "h">>,
      <<"u", "n", "i", "v", "e", "r", "s", "i", "t", "y">>,
      <<"c", "o", "l", "l", "e", "g", "e">>,
      <<"i", "n", "s", "t", "i", "t", "u", "t", "e">>,
      <<"h", "o", "s", "p", "i", "t", "a", "l">> }


(***************************************************************************)
(* EntityExtractor.  The registry is the content of the company list: a    *)
(* sequence of rows [Company_Name, Entity_Type].                           *)
(***************************************************************************)
IsUpper(c) == c \in UpperLetters
IsLetter(c) == c \in LowerLetters \cup UpperLetters

\* str.title(): a letter that follows a letter is lowered, any other letter raised
Title(s) ==
    [i \in 1..Len(s) |->
        IF i > 1 /\ IsLetter(s[i - 1]) THEN ToLowerChar(s[i]) ELSE ToUpperChar(s[i])]

\* any(word in text_lower for word in self.filter_words)
HasFilterWord(text_lower) == \E word \in filter_words : Contains(text_lower, word)

\* the entity types the program itself gives
CompanyType == <<"C", "o", "m", "p", "a", "n", "y">>
OrganizationType == <<"O", "r", "g", "a", "n", "i", "z", "a", "t", "i", "o", "n">>

\* the cells pd.read_csv reads as missing values (its default na_values)
NaValues ==
    {<<>>, <<"#", "N", "/", "A">>, <<"#", "N", "/", "A", " ", "N", "/", "A">>,
     <<"#", "N", "A">>, <<"-", "1", ".", "#", "I", "N", "D">>,
     <<"-", "1", ".", "#", "Q", "N", "A", "N">>, <<"-", "N", "a", "N">>,
     <<"-", "n", "a", "n">>, <<"1", ".", "#", "I", "N", "D">>,
     <<"1", ".", "#", "Q", "N", "A", "N">>, <<"<", "N", "A", ">">>, <<"N", "/", "A">>,
     <<"N", "A">>, <<"N", "U", "L", "L">>, <<"N", "a", "N">>, <<"N", "o", "n", "e">>,
     <<"n", "/", "a">>, <<"n", "a", "n">>, <<"n", "u", "l", "l">>}

\* str(value) of a cell of a frame read by pd.read_csv from a column of text: a
\* missing value is the float nan
CellText(cell) == IF cell \in NaValues THEN NanLiteral ELSE cell

\* str(row.get('Entity_Type', 'Company')).strip()
EntityTypeOf(row) ==
    IF "Entity_Type" \in DOMAIN row THEN Strip(CellText(row.Entity_Type)) ELSE CompanyType

\* the for loop of _load_company_names from the k-th row of the frame on,
\* starting from the registry reg: known is self.known_companies in the order
\* in which its elements were added, manual is self.manual_companies, seed and
\* sorted_suffixes are the hash seed of the process and the order it gives to
\* the loop over the suffixes
RECURSIVE LoadCompanyRows(_, _, _)
LoadCompanyRows(company_list, k, reg) ==
    IF k > Len(company_list) THEN reg
    ELSE LET company_name == Strip(CellText(company_list[k].Company_Name))
             entity_type == EntityTypeOf(company_list[k])
             normalized == NormalizeWith(reg.sorted_suffixes, company_name)
             skip == \/ company_name = <<>>
                     \/ StrLower(company_name) \in {NanLiteral, NoneLiteral}
                     \/ normalized = <<>>
             existing == reg.manual[normalized][1]
             replace == \/ normalized \notin DOMAIN reg.manual
                        \/ Len(company_name) > Len(existing)
                        \/ /\ Len(company_name) = Len(existing)
                           /\ Contains(company_name, <<" ">>)
                           /\ ~Contains(existing, <<" ">>)
             manual == IF replace
                       THEN [n \in DOMAIN reg.manual \cup {normalized} |->
                                IF n = normalized THEN <<company_name, entity_type>>
                                ELSE reg.manual[n]]
                       ELSE reg.manual
             next == IF skip THEN reg
                     ELSE [reg EXCEPT
                              !.known = SetAdd(SetAdd(@, normalized),
                                               Strip(StrLower(company_name))),
                              !.manual = manual]
         IN  IF next.known = <<>> THEN LoadCompanyRows(company_list, k + 1, reg)
             ELSE LoadCompanyRows(company_list, k + 1, next)

\* the registry of __init__ before anything is loaded
EmptyRegistry(seed) ==
    [known |-> <<>>, manual |-> <<>>, seed |-> seed, sorted_suffixes |-> SortedSuffixes(seed)]

\* the body of _load_company_names for the frame company_list that pd.read_csv
\* returned, in a process of the given seed: a frame without the column
\* Company_Name loads nothing
LoadCompanies(company_list, seed) ==
    IF company_list # <<>> /\ "Company_Name" \notin DOMAIN company_list[1]
    THEN EmptyRegistry(seed)
    ELSE LoadCompanyRows(company_list, 1, EmptyRegistry(seed))

\* the company list on disk: exists is Path(company_csv_path).exists(), parsed
\* is whether pd.read_csv returns a frame rather than raising, rows is the frame
CompanyFile(rows) == [exists |-> TRUE, parsed |-> TRUE, rows |-> rows]
MissingFile == [exists |-> FALSE, parsed |-> FALSE, rows |-> <<>>]
BrokenFile == [exists |-> TRUE, parsed |-> FALSE, rows |-> <<>>]

\* self.known_companies and self.manual_companies after __init__ in a process
\* of the given seed: a file that is not there is not loaded, and the except
\* clause of _load_company_names leaves the registry empty when pd.read_csv
\* raises
InitCompanies(company_file, seed) ==
    IF company_file.exists /\ company_file.parsed
    THEN LoadCompanies(company_file.rows, seed)
    ELSE EmptyRegistry(seed)

\* the seed with the order it gives to self.known_companies
WithCompanies(seed, order) ==
    [suffixes |-> seed.suffixes, companies |-> order,
     tags |-> seed.tags, entities |-> seed.entities]

\* the same in the process of the run
load_company_names(company_file) == InitCompanies(company_file, hash_seed)

\* EntityExtractor._is_likely_company_name
is_likely_company_name(text, known_companies) ==
    LET text_lower == Strip(StrLower(text))
        words == SplitWords(text, 1)
    IN  /\ Len(text) >= 2
        /\ Len(text_lower) >= 2
        /\ Len(text_lower) <= 50
        /\ ~HasFilterWord(text_lower)
        /\ \/ \E company \in Range(known_companies) : Contains(text_lower, company)
           \/ \E suffix \in company_suffixes :
                 EndsWith(text_lower, suffix) \/ Contains(text_lower, <<" ">> \o suffix)
           \/ Len(words) = 1 /\ IsUpper(text[1]) /\ Len(text) <= 5
           \/ Len(words) >= 2 /\ Len(words) <= 5 /\ IsUpper(words[1][1])

\* EntityExtractor._classify_entity_type
classify_entity_type(entity_name) ==
    IF \E pattern \in org_patterns : Contains(StrLower(entity_name), pattern)
    THEN OrganizationType
    ELSE CompanyType

\* the for loop of _extract_from_matched_keywords from the k-th keyword on:
\* acc = [entities, rejected] grows by one keyword at a time
RECURSIVE ExtractKeywords(_, _, _, _)
ExtractKeywords(keywords_list, k, reg, acc) ==
    IF k > Len(keywords_list) THEN acc
    ELSE LET keyword == Strip(keywords_list[k])
             normalized == NormalizeWith(reg.sorted_suffixes, keyword)
             next ==
                 IF Len(keyword) < 2 THEN acc
                 ELSE IF HasFilterWord(StrLower(keyword))
                 THEN [acc EXCEPT !.rejected = Append(@, keyword)]
                 ELSE IF is_likely_company_name(keyword, reg.known) /\ Len(normalized) > 1
                 THEN [acc EXCEPT !.entities = SetAdd(@, <<normalized, keyword, 90>>)]
                 ELSE [acc EXCEPT !.rejected = Append(@, keyword)]
         IN  IF Len(next.rejected) >= 0
             THEN ExtractKeywords(keywords_list, k + 1, reg, next)
             ELSE acc

\* EntityExtractor._extract_from_matched_keywords: the set of
\* <<normalized, display name, 0.9>>, in the order in which they were added, and
\* the candidates rejected on the way
extract_from_matched_keywords(article, reg) ==
    LET matched_keywords == Strip(article.matched_keywords)
    IN  IF StrLower(matched_keywords) \in {<<>>, NanLiteral, NoneLiteral}
        THEN [entities |-> <<>>, rejected |-> <<>>]
        ELSE ExtractKeywords(SplitOn(matched_keywords, KeywordDelimiters), 1,
                             reg, [entities |-> <<>>, rejected |-> <<>>])

\* where \s+(?:suffix|...)\b matches in s from position i: the position after
\* the match, 0 if there is no match
SuffixGroupEnd(s, i, suffixes) ==
    LET j == SkipSpaces(s, i)
        hit == {k \in 1..Len(suffixes) :
                   MatchAt(s, j, suffixes[k]) /\ WordBoundary(s, j + Len(suffixes[k]))}
    IN  IF j > i /\ hit # {} THEN j + Len(suffixes[SetMin(hit)]) ELSE 0

\* where a pattern matches at position i of s, 0 if it does not:
\*   "suffixed"  \bname\s+(?:suffix|...)\b      (_extract_known_companies_from_text)
\*   "plain"     \bname\b                       (_extract_known_companies_from_text)
\*   "mention"   \bname(?:\s+(?:suffix|...))?\b (_count_entity_mentions)
MatchEnd(kind, s, i, name) ==
    IF ~(WordBoundary(s, i) /\ MatchAt(s, i, name)) THEN 0
    ELSE IF kind = "suffixed" THEN SuffixGroupEnd(s, i + Len(name), TextSuffixes)
    ELSE IF kind = "mention" /\ SuffixGroupEnd(s, i + Len(name), MentionSuffixes) > 0
    THEN SuffixGroupEnd(s, i + Len(name), MentionSuffixes)
    ELSE IF WordBoundary(s, i + Len(name)) THEN i + Len(name)
    ELSE 0

\* re.finditer: the spans <<start, end>> (end exclusive) of the non-overlapping
\* matches of a pattern from position i on
RECURSIVE FindIter(_, _, _, _)
FindIter(kind, s, i, name) ==
    LET starts == {j \in i..Len(s) : MatchEnd(kind, s, j, name) > 0}
        j == SetMin(starts)
    IN  IF name = <<>> \/ starts = {} THEN <<>>
        ELSE <<<<j, MatchEnd(kind, s, j, name)>>>>
                 \o FindIter(kind, s, MatchEnd(kind, s, j, name), name)

\* re.search(r'\bname[^\s,\.;:]*', context).group(0), <<>> when there is no match
FullNameMatch(context, name) ==
    LET starts == {p \in 1..Len(context) : WordBoundary(context, p) /\ MatchAt(context, p, name)}
        p == SetMin(starts)
        stops == {q \in (p + Len(name))..Len(context) :
                     IsSpace(context[q]) \/ context[q] \in {",", ".", ";", ":"}}
        q == IF stops = {} THEN Len(context) + 1 ELSE SetMin(stops)
    IN  IF starts = {} THEN <<>> ELSE SubSeq(context, p, q - 1)

\* the display name the match <<start, end>> of a known company gives: the full
\* name found in the 20 characters of context on either side, title-cased
DisplayOfMatch(text, span, known_company) ==
    LET context == SubSeq(text, IntMax(1, span[1] - 20), IntMin(Len(text), span[2] + 19))
    IN  Title(Strip(FullNameMatch(context, known_company)))

\* the entity one pattern yields: that of its first match whose display name
\* has a non-empty normalized form
EntityOfMatches(text, spans, known_company, reg) ==
    LET good == {k \in 1..Len(spans) :
                    NormalizeWith(reg.sorted_suffixes,
                                  DisplayOfMatch(text, spans[k], known_company)) # <<>>}
        display_name == DisplayOfMatch(text, spans[SetMin(good)], known_company)
    IN  IF good = {} THEN <<>>
        ELSE <<<<NormalizeWith(reg.sorted_suffixes, display_name), display_name, 70>>>>

\* the for loop of _extract_known_companies_from_text over the known companies
\* in the order companies, from the k-th on: a company that stands in the text
\* adds the entity of its suffixed pattern, then that of its plain pattern
RECURSIVE ExtractKnown(_, _, _, _, _)
ExtractKnown(text, companies, k, reg, entities) ==
    IF k > Len(companies) THEN entities
    ELSE IF ~Contains(StrLower(text), companies[k])
    THEN ExtractKnown(text, companies, k + 1, reg, entities)
    ELSE ExtractKnown(text, companies, k + 1, reg,
                      SetUpdate(entities,
                                EntityOfMatches(text,
                                                FindIter("suffixed", StrLower(text), 1,
                                                         companies[k]),
                                                companies[k], reg)
                                \o EntityOfMatches(text,
                                                   FindIter("plain", StrLower(text), 1,
                                                            companies[k]),
                                                   companies[k], reg),
                                1))

\* EntityExtractor._extract_known_companies_from_text: the set of
\* <<normalized, display name, 0.7>>, in the order in which they were added;
\* self.known_companies is iterated in the order the seed of the process gives it
extract_known_companies_from_text(text, reg) ==
    ExtractKnown(text, IterationOrder(reg.known, reg.seed.companies), 1, reg, <<>>)

\* EntityExtractor._count_entity_mentions
count_entity_mentions(entity_name, text) ==
    IF Strip(StrLower(entity_name)) = <<>> \/ text = <<>> THEN 0
    ELSE Len(FindIter("mention", text, 1, Strip(StrLower(entity_name))))

\* every found tuple appended as a new entry, collisions not looked for
AppendEntity(entities_dict, normalized, display_name, confidence, mention_count) ==
    Append(entities_dict,
           [normalized |-> normalized, display |-> display_name,
            type |-> classify_entity_type(display_name),
            confidence |-> confidence, count |-> mention_count])

\* entities_dict[normalized] = ... of extract_entities_from_article: a new key is
\* appended, a higher confidence replaces the entry, otherwise the mention count
\* becomes the larger one.  The dict is a sequence of entries in insertion order.
UpsertEntity(entities_dict, normalized, display_name, confidence, mention_count) ==
    LET at == {k \in 1..Len(entities_dict) : entities_dict[k].normalized = normalized}
        k == SetMin(at)
        entry == [normalized |-> normalized, display |-> display_name,
                  type |-> classify_entity_type(display_name),
                  confidence |-> confidence, count |-> mention_count]
    IN  IF at = {} THEN Append(entities_dict, entry)
        ELSE IF confidence > entities_dict[k].confidence
        THEN [entities_dict EXCEPT ![k] = entry]
        ELSE [entities_dict EXCEPT ![k].count = IntMax(@, mention_count)]

\* one of the two for loops of extract_entities_from_article over the found
\* <<normalized, display name, confidence>> tuples, taken in the given order
RECURSIVE MergeEntities(_, _, _, _)
MergeEntities(entities_dict, found, k, full_text) ==
    IF k > Len(found) THEN entities_dict
    ELSE LET next == UpsertEntity(entities_dict, found[k][1], found[k][2], found[k][3],
                                  count_entity_mentions(found[k][2], full_text))
         IN  IF Len(next) >= 0 THEN MergeEntities(next, found, k + 1, full_text)
             ELSE entities_dict

\* Strategy 3: an entry whose key is in the company list takes its name and type
\* from there, at confidence 1.0
ManualOverride(entities_dict, manual_companies) ==
    [k \in 1..Len(entities_dict) |->
        IF entities_dict[k].normalized \in DOMAIN manual_companies
        THEN [entities_dict[k] EXCEPT
                 !.display = manual_companies[entities_dict[k].normalized][1],
                 !.type = manual_companies[entities_dict[k].normalized][2],
                 !.confidence = 100]
        ELSE entities_dict[k]]

\* full_text of extract_entities_from_article
FullText(article) == StrLower(StrLower(article.Headline) \o <<" ">> \o StrLower(article.Body))

\* the two sets extract_entities_from_article iterates over
KeywordEntities(article, reg) == extract_from_matched_keywords(article, reg).entities
KnownEntities(combined_text, reg) ==
    IF combined_text = <<>> THEN <<>>
    ELSE extract_known_companies_from_text(combined_text, reg)

\* the list extract_entities_from_article returns for its entities_dict
EntityList(entities_dict) ==
    [k \in 1..Len(entities_dict) |->
        <<entities_dict[k].display, entities_dict[k].type,
          entities_dict[k].confidence, entities_dict[k].count>>]

\* EntityExtractor.extract_entities_from_article when its two sets are iterated
\* in the orders keyword_order and known_order: the list of
\* <<display name, entity type, confidence, mention count>>
ExtractOrdered(article, combined_text, reg, keyword_order, known_order) ==
    EntityList(ManualOverride(
                   MergeEntities(MergeEntities(<<>>, keyword_order, 1, FullText(article)),
                                 known_order, 1, FullText(article)),
                   reg.manual))

\* EntityExtractor.extract_entities_from_article: the two sets are iterated in
\* the orders the seed of the process gives them
extract_entities_from_article(article, combined_text, reg) ==
    ExtractOrdered(article, combined_text, reg,
                   IterationOrder(KeywordEntities(article, reg), reg.seed.entities),
                   IterationOrder(KnownEntities(combined_text, reg), reg.seed.entities))

\* what extract_entities_from_article appends to rejected_entities
RejectedOf(article, reg) == extract_from_matched_keywords(article, reg).rejected
\* self.boilerplate_patterns: every pattern is a row of literals, each with its
\* alternatives, every literal followed by [^.]* and the last one also by \.
boilerplate_patterns ==
    << << {<<"t", "o", " ", "r", "e", "a", "d", " ", "t", "h", "e", " ", "r", "e", "s", "t", " ", "o", "f", " ", "t", "h", "i", "s", " ", "s", "t", "o", "r", "y", " ", "s", "u", "b", "s", "c", "r", "i", "b", "e", " ", "t", "o">>} >>,
       << {<<"t", "o", " ", "r", "e", "a", "d", " ", "t", "h", "e", " ", "f", "u", "l", "l", " ", "a", "r", "t", "i", "c", "l", "e">>, <<"t", "o", " ", "r", "e", "a", "d", " ", "t", "h", "e", " ", "f", "u", "l", "l", " ", "s", "t", "o", "r", "y">>}, {<<"s", "u", "b", "s", "c", "r", "i", "b", "e">>} >>,
       << {<<"t", "o", " ", "r", "e", "a", "d", " ", "t", "h", "e", " ", "f", "u", "l", "l", " ", "a", "r", "t", "i", "c", "l", "e">>, <<"t", "o", " ", "r", "e", "a", "d", " ", "t", "h", "e", " ", "f", "u", "l", "l", " ", "s", "t", "o", "r", "y">>}, {<<"s", "i", "g", "n", " ", "u", "p">>, <<"s", "i", "g", "n", " ", "i", "n">>} >>,
       << {<<"s", "u", "b", "s", "c", "r", "i", "b", "e", " ", "t", "o">>}, {<<"s", "t", "a", "t", "+">>} >>,
       << {<<"s", "u", "b", "s", "c", "r", "i", "b", "e", " ", "t", "o">>}, {<<"s", "t", "a", "t">>} >>,
       << {<<"s", "u", "b", "s", "c", "r", "i", "b", "e", " ", "t", "o">>}, {<<"p", "r", "e", "m", "i", "u", "m">>} >>,
       << {<<"s", "i", "g", "n", " ", "u", "p", " ", "f", "o", "r">>}, {<<"n", "e", "w", "s", "l", "e", "t", "t", "e", "r">>} >>,
       << {<<"s", "u", "b", "s", "c", "r", "i", "b", "e", " ", "t", "o">>}, {<<"n", "e", "w", "s", "l", "e", "t", "t", "e", "r">>} >>,
       << {<<"t", "o", " ", "s", "u", "b", "m", "i", "t", " ", "a", " ", "c", "o", "r", "r", "e", "c", "t", "i", "o", "n", " ", "r", "e", "q", "u", "e", "s", "t">>} >>,
       << {<<"t", "o", " ", "s", "u", "b", "m", "i", "t", " ", "a", " ", "c", "o", "r", "r", "e", "c", "t", "i", "o", "n">>} >>,
       << {<<"f", "o", "r", " ", "m", "o", "r", "e", " ", "i", "n", "f", "o", "r", "m", "a", "t", "i", "o", "n">>} >>,
       << {<<"r", "e", "a", "d", " ", "m", "o", "r", "e", " ", "a", "t">>} >> >>

\* ending_markers: the phrase of every marker \.\s*phrase.*$
ending_markers ==
    << <<"t", "o", " ", "r", "e", "a", "d", " ", "t", "h", "e", " ", "r", "e", "s", "t">>,
       <<"t", "o", " ", "r", "e", "a", "d", " ", "t", "h", "e", " ", "f", "u", "l", "l">>,
       <<"s", "u", "b", "s", "c", "r", "i", "b", "e">>,
       <<"t", "o", " ", "s", "u", "b", "m", "i", "t", " ", "a", " ", "c", "o", "r", "r", "e", "c", "t", "i", "o", "n">>,
       <<"c", "o", "n", "t", "a", "c", "t", " ", "u", "s">>,
       <<"f", "o", "r", " ", "m", "o", "r", "e", " ", "i", "n", "f", "o", "r", "m", "a", "t", "i", "o", "n">> >>

(***************************************************************************)
(* TextNormalizer.                                                         *)
(***************************************************************************)
\* the first index of the run of characters of set cs that holds position i
RunStart(s, i, cs) ==
    1 + SetMax({0} \cup {j \in 1..i : s[j] \notin cs})

\* the index after the run of characters of set cs that holds position i
RunEnd(s, i, cs) ==
    SetMin({Len(s) + 1} \cup {j \in i..Len(s) : s[j] \notin cs})

\* s without the positions marked "" in marked
DropMarked(marked) == SelectSeq(marked, LAMBDA c : c # "")

\* re.sub of every run of at least n characters of cs by the one character to
CollapseRuns(s, cs, n, to) ==
    DropMarked([i \in 1..Len(s) |->
        IF s[i] \notin cs \/ RunEnd(s, i, cs) - RunStart(s, i, cs) < n THEN s[i]
        ELSE IF i = RunStart(s, i, cs) THEN to
        ELSE ""])

\* the index of the first period of s at or after i (Len(s) + 1 if none)
PeriodFrom(s, i) ==
    SetMin({Len(s) + 1} \cup {j \in i..Len(s) : s[j] = "."})

\* the literals parts[k], parts[k + 1], ... occur in seg in this order from start on
RECURSIVE LiteralsFrom(_, _, _, _)
LiteralsFrom(seg, parts, k, start) ==
    \/ k > Len(parts)
    \/ \E alt \in parts[k] : \E p \in start..Len(seg) :
           /\ MatchAt(seg, p, alt)
           /\ LiteralsFrom(seg, parts, k + 1, p + Len(alt))

\* the pattern matches at position i of text, ignoring case: the first literal
\* stands at i, the others follow before the next period, which ends the match
PatternAt(text, parts, i) ==
    LET d == PeriodFrom(text, i)
        seg == StrLower(Slice(text, i, d - 1))
    IN  /\ d <= Len(text)
        /\ \E alt \in parts[1] :
               /\ MatchAt(seg, 1, alt)
               /\ LiteralsFrom(seg, parts, 2, 1 + Len(alt))

\* re.sub(pattern, '', text, flags=re.IGNORECASE) from position start on: the
\* leftmost match goes, and the scan goes on behind its period
RECURSIVE SubPattern(_, _, _)
SubPattern(text, parts, start) ==
    LET starts == {j \in start..Len(text) : PatternAt(text, parts, j)}
    IN  IF starts = {} THEN Slice(text, start, Len(text))
        ELSE Slice(text, start, SetMin(starts) - 1)
             \o SubPattern(text, parts, PeriodFrom(text, SetMin(starts)) + 1)

\* the loop of lines 147-148 from pattern k on
RECURSIVE RemovePatterns(_, _)
RemovePatterns(text, k) ==
    IF k > Len(boilerplate_patterns) THEN text
    ELSE RemovePatterns(SubPattern(text, boilerplate_patterns[k], 1), k + 1)

\* \.\s*phrase.*$ matches at position i of text, ignoring case: a period,
\* whitespace, the phrase, and no line break before the end of the text other
\* than a last one, in front of which $ matches too
MarkerAt(text, phrase, i) ==
    /\ text[i] = "."
    /\ MatchAt(StrLower(text), SkipSpaces(text, i + 1), phrase)
    /\ \A j \in (SkipSpaces(text, i + 1) + Len(phrase))..(Len(text) - 1) : text[j] # "\n"

\* re.sub(marker, '.', text, flags=re.IGNORECASE): the text from the leftmost
\* match on becomes one period; a line break that ends the text stays
SubMarker(text, phrase) ==
    LET starts == {i \in 1..Len(text) : MarkerAt(text, phrase, i)}
    IN  IF starts = {} THEN text
        ELSE Slice(text, 1, SetMin(starts) - 1) \o <<".">>
             \o (IF text[Len(text)] = "\n" THEN <<"\n">> ELSE <<>>)

\* the loop of lines 160-161 from marker k on
RECURSIVE RemoveEndings(_, _)
RemoveEndings(text, k) ==
    IF k > Len(ending_markers) THEN text
    ELSE RemoveEndings(SubMarker(text, ending_markers[k]), k + 1)

\* TextNormalizer._remove_boilerplate: the patterns go, the text behind an
\* ending marker goes, then runs of periods and of three or more whitespace
\* characters are collapsed
remove_boilerplate(text) ==
    IF text = <<>> THEN text
    ELSE Strip(CollapseRuns(CollapseRuns(RemoveEndings(RemovePatterns(text, 1), 1),
                                         {"."}, 2, "."),
                            WhiteSpace, 3, " "))

NonSpace(s) == {c \in Range(s) : ~IsSpace(c)}

\* https?://\S+|www\.\S+ matches at position j of s
UrlStartsAt(s, j) ==
    \E prefix \in { <<"h", "t", "t", "p", ":", "/", "/">>,
                    <<"h", "t", "t", "p", "s", ":", "/", "/">>,
                    <<"w", "w", "w", ".">> } :
        /\ MatchAt(s, j, prefix)
        /\ j + Len(prefix) <= Len(s)
        /\ ~IsSpace(s[j + Len(prefix)])

\* re.sub(r'https?://\S+|www\.\S+', '', s): a URL runs to the next whitespace
RemoveUrls(s) ==
    DropMarked([i \in 1..Len(s) |->
        IF \E j \in RunStart(s, i, NonSpace(s))..i : UrlStartsAt(s, j) THEN "" ELSE s[i]])

\* re.sub(r'\S+@\S+', '', s): a whitespace-free run with an @ inside it goes
RemoveEmails(s) ==
    DropMarked([i \in 1..Len(s) |->
        IF /\ ~IsSpace(s[i])
           /\ \E p \in (RunStart(s, i, NonSpace(s)) + 1)..(RunEnd(s, i, NonSpace(s)) - 2) :
                 s[p] = "@"
        THEN ""
        ELSE s[i]])

\* re.sub(r'[^\w\s\'\-]', ' ', s)
PunctuationToSpace(s) ==
    [i \in 1..Len(s) |->
        IF IsWordChar(s[i]) \/ IsSpace(s[i]) \/ s[i] \in {"'", "-"} THEN s[i] ELSE " "]

\* re.sub(r'\b\w\b', '', s): word characters that stand alone are removed
RemoveSingleChars(s) ==
    DropMarked([i \in 1..Len(s) |->
        IF /\ IsWordChar(s[i])
           /\ (i = 1 \/ ~IsWordChar(s[i - 1]))
           /\ (i = Len(s) \/ ~IsWordChar(s[i + 1]))
        THEN ""
        ELSE s[i]])

\* TextNormalizer._normalize_text
normalize_text(text) ==
    IF text = <<>> THEN <<>>
    ELSE Strip(RemoveSingleChars(
             CollapseRuns(
                 PunctuationToSpace(
                     RemoveEmails(RemoveUrls(StrLower(remove_boilerplate(Strip(text)))))),
                 WhiteSpace, 1, " ")))

\* TextNormalizer.normalize_article_text
normalize_article_text(article) ==
    LET headline_norm == normalize_text(Strip(article.Headline))
        body_norm == normalize_text(Strip(article.Body))
        consolidated_norm == normalize_text(Strip(article.Consolidated_Text))
        combined_texts ==
            (IF headline_norm # <<>> THEN <<headline_norm>> ELSE <<>>)
            \o (IF body_norm # <<>> THEN <<body_norm>> ELSE <<>>)
            \o (IF consolidated_norm # <<>> /\ consolidated_norm # body_norm
                THEN <<consolidated_norm>> ELSE <<>>)
    IN  [headline_normalized |-> headline_norm,
         body_normalized |-> body_norm,
         consolidated_normalized |-> consolidated_norm,
         combined_normalized |-> Join(combined_texts, <<" ">>)]

\* the printable ASCII characters in code point order, from 32 (space) on; the
\* backquote (96) cannot be written in a string here, a name holds its place
Ascii ==
    << " ", "!", "\"", "#", "$", "%", "&", "'", "(", ")", "*", "+", ",", "-", ".", "/",
       "0", "1", "2", "3", "4", "5", "6", "7", "8", "9", ":", ";", "<", "=", ">", "?",
       "@", "A", "B", "C", "D", "E", "F", "G", "H", "I", "J", "K", "L", "M", "N", "O",
       "P", "Q", "R", "S", "T", "U", "V", "W", "X", "Y", "Z", "[", "\\", "]", "^", "_",
       "backquote", "a", "b", "c", "d", "e", "f", "g", "h", "i", "j", "k", "l", "m", "n", "o",
       "p", "q", "r", "s", "t", "u", "v", "w", "x", "y", "z", "{", "|", "}", "~" >>

(***************************************************************************)
(* Python string order, the calendar, and pandas.to_datetime on one text   *)
(* as pandas 2 reads it when no format is given.                           *)
(***************************************************************************)
\* ord(c)
CodePoint(c) ==
    IF c = "\t" THEN 9
    ELSE IF c = "\n" THEN 10
    ELSE 31 + SetMin({k \in 1..Len(Ascii) : Ascii[k] = c})

\* a < b for two Python strings
StrLess(a, b) ==
    \E k \in 1..(IntMin(Len(a), Len(b)) + 1) :
        /\ \A j \in 1..(k - 1) : a[j] = b[j]
        /\ \/ k > Len(a) /\ k <= Len(b)
           \/ k <= Len(a) /\ k <= Len(b) /\ CodePoint(a[k]) < CodePoint(b[k])

\* sorted(S) for a strict total order Less on the finite set S
SortedSeq(S, Less(_, _)) ==
    [k \in 1..Cardinality(S) |->
        CHOOSE x \in S : Cardinality({y \in S : Less(y, x)}) = k - 1]

DigitValue(c) == CodePoint(c) - 48
IsDigit(c) == c \in Digits

\* str(n) padded with zeros to the given width
RECURSIVE ZeroPad(_, _)
ZeroPad(n, width) ==
    IF width = 0 THEN <<>>
    ELSE ZeroPad(n \div 10, width - 1) \o <<Ascii[17 + (n % 10)]>>

IsLeapYear(y) == ((y % 4) = 0 /\ (y % 100) # 0) \/ (y % 400) = 0

DaysInMonth(y, m) ==
    IF m = 2 THEN (IF IsLeapYear(y) THEN 29 ELSE 28)
    ELSE IF m \in {4, 6, 9, 11} THEN 30
    ELSE 31

MonthNames ==
    << "January", "February", "March", "April", "May", "June", "July",
       "August", "September", "October", "November", "December" >>

DayNames ==
    << "Monday", "Tuesday", "Wednesday", "Thursday", "Friday", "Saturday", "Sunday" >>

\* the day of the year, 1 for January 1st
RECURSIVE DayOfYear(_, _, _)
DayOfYear(y, m, d) ==
    IF m = 1 THEN d ELSE DaysInMonth(y, m - 1) + DayOfYear(y, m - 1, d)

\* the ISO weekday of January 1st of year y, 1 for Monday
\* (January 1st of year 1 was a Monday in the proleptic Gregorian calendar)
Jan1Weekday(y) ==
    1 + (((y - 1) * 365 + ((y - 1) \div 4) - ((y - 1) \div 100) + ((y - 1) \div 400)) % 7)

\* date.isoweekday()
IsoWeekday(y, m, d) == 1 + ((Jan1Weekday(y) - 1 + DayOfYear(y, m, d) - 1) % 7)

\* the number of ISO weeks of year y
IsoWeeksInYear(y) ==
    IF Jan1Weekday(y) = 4 \/ (IsLeapYear(y) /\ Jan1Weekday(y) = 3) THEN 53 ELSE 52

\* date.isocalendar()[1]
IsoWeek(y, m, d) ==
    LET w == (DayOfYear(y, m, d) - IsoWeekday(y, m, d) + 10) \div 7
    IN  IF w < 1 THEN IsoWeeksInYear(y - 1)
        ELSE IF w > IsoWeeksInYear(y) THEN 1
        ELSE w


NoDate == [ok |-> FALSE, year |-> 0, month |-> 0, day |-> 0]

\* the day the program runs: datetime.now() for 'now', 'today', a text that
\* names a time only, and the century of a year of two digits
Today == [ok |-> TRUE, year |-> 2026, month |-> 10, day |-> 30]

\* int(s) of a text of digits
RECURSIVE NumberOf(_)
NumberOf(s) ==
    IF s = <<>> THEN 0
    ELSE 10 * NumberOf(SubSeq(s, 1, Len(s) - 1)) + DigitValue(s[Len(s)])

\* s[i], and "" where s has no i-th character
CharAt(s, i) == IF i >= 1 /\ i <= Len(s) THEN s[i] ELSE ""

\* str.isdigit() on a text of this alphabet
AllDigits(s) == s # <<>> /\ \A i \in 1..Len(s) : IsDigit(s[i])

\* a text of digits without its leading zeros
RECURSIVE DropZeros(_)
DropZeros(s) == IF Len(s) > 1 /\ s[1] = "0" THEN DropZeros(Tail(s)) ELSE s

\* every number from here on stands for itself: it is beyond every year, day,
\* hour, minute and second
HugeNumber == 100000000

\* int(s) of a text of digits, cut at HugeNumber
IntOf(s) == IF Len(DropZeros(s)) > 8 THEN HugeNumber ELSE NumberOf(DropZeros(s))

\* the number of one digit at s[i], or of two when s[i + 1] is a digit too,
\* and the index after it
OneOrTwo(s, i) ==
    IF IsDigit(CharAt(s, i + 1)) THEN <<NumberOf(SubSeq(s, i, i + 1)), i + 2>>
    ELSE <<DigitValue(s[i]), i + 1>>

\* the number of digits of s from index i on
DigitRun(s, i) ==
    LET stop == {j \in i..Len(s) : ~IsDigit(s[j])}
    IN  (IF stop = {} THEN Len(s) + 1 ELSE SetMin(stop)) - i

(***************************************************************************)
(* A moment read from a text: the wall-clock date, the second of the day,  *)
(* the nanosecond of the second and the offset from UTC in seconds.        *)
(***************************************************************************)
NoStamp ==
    [parsed |-> FALSE, year |-> 0, month |-> 0, day |-> 0, second |-> 0, nanos |-> 0,
     tzoffset |-> 0]

StampOf(y, m, d) ==
    [parsed |-> TRUE, year |-> y, month |-> m, day |-> d, second |-> 0, nanos |-> 0,
     tzoffset |-> 0]

(***************************************************************************)
(* parse_iso_8601_datetime of pandas (np_datetime_strings.c), the first    *)
(* parser of a text.  The parser goes through the text once; here each     *)
(* part of it is an operator on the position p of the parser: p.state is   *)
(* the part to read next, "done" at a text read to its end, "error" at the *)
(* parse error; p.at is the index of s to read next; p.sep is the          *)
(* separator of year, month and day ("" for none), p.colons whether colons *)
(* separate hours, minutes and seconds, p.sign the sign of the offset.     *)
(***************************************************************************)
IsoError(p) == [p EXCEPT !.state = "error"]

\* the start of the text: blanks and a minus sign
IsoBegin(s, i) ==
    [state |-> IF i > Len(s) \/ (s[i] = "-" /\ i = Len(s)) THEN "error" ELSE "year",
     at |-> IF CharAt(s, i) = "-" THEN i + 1 ELSE i,
     sep |-> "", colons |-> FALSE, sign |-> 1,
     year |-> 0, month |-> 1, day |-> 1, second |-> 0, nanos |-> 0, tzoffset |-> 0]

\* the characters that may separate year, month and day
IsoSeparators == {"-", ".", "/", "\\", " "}

\* the year up to index j: the end, a month, or a separator and a month
IsoYearUpTo(s, p, j, year) ==
    IF j > Len(s) THEN [p EXCEPT !.state = "done", !.year = year]
    ELSE IF IsDigit(s[j]) THEN [p EXCEPT !.state = "month", !.at = j, !.year = year]
    ELSE IF s[j] \notin IsoSeparators \/ ~IsDigit(CharAt(s, j + 1)) THEN IsoError(p)
    ELSE [p EXCEPT !.state = "month", !.at = j + 1, !.sep = s[j], !.year = year]

\* the year: four digits, and the year 0 where the text has other things; a
\* minus sign makes the year negative when it is the first character of all
IsoYear(s, p) ==
    IF p.state # "year" THEN p
    ELSE IF DigitRun(s, p.at) < 4 THEN IsoYearUpTo(s, p, p.at, 0)
    ELSE IsoYearUpTo(s, p, p.at + 4,
                     (IF s[1] = "-" THEN -1 ELSE 1) * NumberOf(SubSeq(s, p.at, p.at + 3)))

\* the month, a number that ends before index j: two digits, or one after a
\* separator.  A year and a month stand for the first day of the month when
\* they are separated; the day follows the separator the month followed.
IsoMonthUpTo(s, p, number, j) ==
    IF p.sep = "" /\ j # p.at + 2 THEN IsoError(p)
    ELSE IF number \notin 1..12 THEN IsoError(p)
    ELSE IF j > Len(s)
    THEN (IF p.sep = "" THEN IsoError(p) ELSE [p EXCEPT !.state = "done", !.month = number])
    ELSE IF p.sep # "" /\ (s[j] # p.sep \/ j = Len(s)) THEN IsoError(p)
    ELSE IF ~IsDigit(s[IF p.sep = "" THEN j ELSE j + 1]) THEN IsoError(p)
    ELSE [p EXCEPT !.state = "day", !.at = IF p.sep = "" THEN j ELSE j + 1, !.month = number]

IsoMonth(s, p) ==
    IF p.state # "month" THEN p
    ELSE IsoMonthUpTo(s, p, OneOrTwo(s, p.at)[1], OneOrTwo(s, p.at)[2])

\* the day: two digits, or one after a separator; then the end, or T or a
\* blank and the hours
IsoDayUpTo(s, p, number, j) ==
    IF p.sep = "" /\ j # p.at + 2 THEN IsoError(p)
    ELSE IF number \notin 1..DaysInMonth(p.year, p.month) THEN IsoError(p)
    ELSE IF j > Len(s) THEN [p EXCEPT !.state = "done", !.day = number]
    ELSE IF s[j] \notin {"T", " "} \/ ~IsDigit(CharAt(s, j + 1)) THEN IsoError(p)
    ELSE [p EXCEPT !.state = "hours", !.at = j + 1, !.day = number]

IsoDay(s, p) ==
    IF p.state # "day" THEN p
    ELSE IsoDayUpTo(s, p, OneOrTwo(s, p.at)[1], OneOrTwo(s, p.at)[2])

\* the hours: one or two digits, one only before a colon; then the end, a
\* colon and the minutes, the minutes, or the zone
IsoHoursUpTo(s, p, number, j) ==
    IF number >= 24 THEN IsoError(p)
    ELSE IF j > Len(s)
    THEN (IF j = p.at + 2 THEN [p EXCEPT !.state = "done", !.second = 3600 * number]
          ELSE IsoError(p))
    ELSE IF s[j] = ":"
    THEN (IF IsDigit(CharAt(s, j + 1))
          THEN [p EXCEPT !.state = "minutes", !.at = j + 1, !.colons = TRUE,
                         !.second = 3600 * number]
          ELSE IsoError(p))
    ELSE IF IsDigit(s[j]) THEN [p EXCEPT !.state = "minutes", !.at = j, !.second = 3600 * number]
    ELSE IF j = p.at + 2 THEN [p EXCEPT !.state = "zone", !.at = j, !.second = 3600 * number]
    ELSE IsoError(p)

IsoHours(s, p) ==
    IF p.state # "hours" THEN p
    ELSE IsoHoursUpTo(s, p, OneOrTwo(s, p.at)[1], OneOrTwo(s, p.at)[2])

\* the minutes: two digits, or one where colons separate; then the end, the
\* seconds, or the zone
IsoMinutesUpTo(s, p, number, j) ==
    IF ~p.colons /\ j # p.at + 2 THEN IsoError(p)
    ELSE IF number >= 60 THEN IsoError(p)
    ELSE IF j > Len(s) THEN [p EXCEPT !.state = "done", !.second = @ + 60 * number]
    ELSE IF p.colons /\ s[j] = ":"
    THEN (IF IsDigit(CharAt(s, j + 1))
          THEN [p EXCEPT !.state = "seconds", !.at = j + 1, !.second = @ + 60 * number]
          ELSE IsoError(p))
    ELSE IF ~p.colons /\ IsDigit(s[j])
    THEN [p EXCEPT !.state = "seconds", !.at = j, !.second = @ + 60 * number]
    ELSE [p EXCEPT !.state = "zone", !.at = j, !.second = @ + 60 * number]

IsoMinutes(s, p) ==
    IF p.state # "minutes" THEN p
    ELSE IsoMinutesUpTo(s, p, OneOrTwo(s, p.at)[1], OneOrTwo(s, p.at)[2])

\* the seconds: two digits, or one where colons separate; then a point and
\* the fraction, or the zone
IsoSecondsUpTo(s, p, number, j) ==
    IF ~p.colons /\ j # p.at + 2 THEN IsoError(p)
    ELSE IF number >= 60 THEN IsoError(p)
    ELSE IF CharAt(s, j) = "."
    THEN [p EXCEPT !.state = "fraction", !.at = j + 1, !.second = @ + number]
    ELSE [p EXCEPT !.state = "zone", !.at = j, !.second = @ + number]

IsoSeconds(s, p) ==
    IF p.state # "seconds" THEN p
    ELSE IsoSecondsUpTo(s, p, OneOrTwo(s, p.at)[1], OneOrTwo(s, p.at)[2])

\* 10 ** k
RECURSIVE PowerOfTen(_)
PowerOfTen(k) == IF k = 0 THEN 1 ELSE 10 * PowerOfTen(k - 1)

\* the fraction of the second, a run of digits: up to 18 digits are read,
\* the first nine are the nanoseconds
IsoFractionOf(p, digits) ==
    [p EXCEPT !.state = "zone", !.at = @ + IntMin(Len(digits), 18),
              !.nanos = NumberOf(SubSeq(digits, 1, IntMin(Len(digits), 9)))
                            * PowerOfTen(9 - IntMin(Len(digits), 9))]

IsoFraction(s, p) ==
    IF p.state # "fraction" THEN p
    ELSE IsoFractionOf(p, SubSeq(s, p.at, p.at + DigitRun(s, p.at) - 1))

\* the zone from index j on, the first that holds no blank: none, Z, or a
\* sign and an offset
IsoZoneFrom(s, p, j) ==
    IF j > Len(s) THEN [p EXCEPT !.state = "done"]
    ELSE IF s[j] = "Z" THEN [p EXCEPT !.state = "end", !.at = j + 1]
    ELSE IF s[j] \notin {"+", "-"} \/ ~IsDigit(CharAt(s, j + 1)) THEN IsoError(p)
    ELSE [p EXCEPT !.state = "offset", !.at = j + 1, !.sign = IF s[j] = "-" THEN -1 ELSE 1]

IsoZone(s, p) == IF p.state # "zone" THEN p ELSE IsoZoneFrom(s, p, SkipSpaces(s, p.at))

\* the hours of the offset, one or two digits; then the end, or the minutes
\* of the offset, after a colon or not
IsoOffsetUpTo(s, p, number, j) ==
    IF number >= 24 THEN IsoError(p)
    ELSE IF j > Len(s) THEN [p EXCEPT !.state = "done", !.tzoffset = p.sign * 3600 * number]
    ELSE IF ~IsDigit(CharAt(s, IF s[j] = ":" THEN j + 1 ELSE j)) THEN IsoError(p)
    ELSE [p EXCEPT !.state = "offset minutes", !.at = IF s[j] = ":" THEN j + 1 ELSE j,
                   !.tzoffset = p.sign * 3600 * number]

IsoOffset(s, p) ==
    IF p.state # "offset" THEN p
    ELSE IsoOffsetUpTo(s, p, OneOrTwo(s, p.at)[1], OneOrTwo(s, p.at)[2])

\* the minutes of the offset, one or two digits
IsoOffsetMinutes(s, p) ==
    IF p.state # "offset minutes" THEN p
    ELSE IF OneOrTwo(s, p.at)[1] >= 60 THEN IsoError(p)
    ELSE [p EXCEPT !.state = "end", !.at = OneOrTwo(s, p.at)[2],
                   !.tzoffset = @ + p.sign * 60 * OneOrTwo(s, p.at)[1]]

\* after the zone: blanks up to the end
IsoEnd(s, p) ==
    IF p.state # "end" THEN p
    ELSE IF SkipSpaces(s, p.at) > Len(s) THEN [p EXCEPT !.state = "done"]
    ELSE IsoError(p)

\* the moment read, NoStamp for the parse error
IsoStamp(p) ==
    IF p.state # "done" THEN NoStamp
    ELSE [parsed |-> TRUE, year |-> p.year, month |-> p.month, day |-> p.day,
          second |-> p.second, nanos |-> p.nanos, tzoffset |-> p.tzoffset]

IsoDate(s, p) == IsoDay(s, IsoMonth(s, IsoYear(s, p)))

IsoClock(s, p) == IsoFraction(s, IsoSeconds(s, IsoMinutes(s, IsoHours(s, p))))

IsoOffsetOf(s, p) == IsoEnd(s, IsoOffsetMinutes(s, IsoOffset(s, IsoZone(s, p))))

parse_iso_8601_datetime(s) ==
    IsoStamp(IsoOffsetOf(s, IsoClock(s, IsoDate(s, IsoBegin(s, SkipSpaces(s, 1))))))

(***************************************************************************)
(* What pandas checks before it hands a text to dateutil                   *)
(* (pandas/_libs/tslibs/parsing.pyx).                                      *)
(***************************************************************************)
\* the texts that are a missing value: nat_strings
NatStrings == {<<"N", "a", "T">>, <<"n", "a", "t">>, <<"N", "A", "T">>, <<"n", "a", "n">>, <<"N", "a", "N">>, <<"N", "A", "N">>}

\* a text that is a number below 1000: a sign, digits with or without a
\* point, blanks around them (a number with an exponent never parses as a
\* date)
LooksLikeSmallNumber(s, i) ==
    LET j == IF CharAt(s, i) \in {"+", "-"} THEN i + 1 ELSE i
        whole == DigitRun(s, j)
        k == j + whole
        fraction == IF CharAt(s, k) = "." THEN DigitRun(s, k + 1) ELSE 0
    IN  /\ whole + fraction > 0
        /\ SkipSpaces(s, IF CharAt(s, k) = "." THEN k + 1 + fraction ELSE k) > Len(s)
        /\ \/ CharAt(s, i) = "-"
           \/ whole = 0
           \/ Len(DropZeros(SubSeq(s, j, k - 1))) < 4

\* _does_string_look_like_datetime
LooksLikeDatetime(s) ==
    \/ CharAt(s, 1) = "0"
    \/ /\ s \notin {<<"a">>, <<"A">>, <<"m">>, <<"M">>, <<"p">>, <<"P">>, <<"t">>, <<"T">>}
       /\ ~LooksLikeSmallNumber(s, SkipSpaces(s, 1))

\* _does_string_look_like_time: the text starts with H:MM or HH:MM
LooksLikeTime(s) ==
    LET colon == IF CharAt(s, 2) = ":" THEN 2 ELSE 3
    IN  /\ Len(s) >= 4
        /\ CharAt(s, colon) = ":"
        /\ \A k \in (1..(colon - 1)) \cup {colon + 1, colon + 2} : IsDigit(CharAt(s, k))
        /\ NumberOf(SubSeq(s, 1, colon - 1)) < 24
        /\ NumberOf(SubSeq(s, colon + 1, colon + 2)) < 60

\* int(text): <<whether it is a number, the number>>; blanks around it, a
\* sign and single underscores between digits are allowed
PyInt(text) ==
    LET body == Strip(text)
        signed == CharAt(body, 1) \in {"+", "-"}
        digits == SubSeq(body, IF signed THEN 2 ELSE 1, Len(body))
        plain == SelectSeq(digits, LAMBDA c : c # "_")
    IN  IF /\ AllDigits(plain)
           /\ IsDigit(digits[1]) /\ IsDigit(digits[Len(digits)])
           /\ \A k \in 1..(Len(digits) - 1) : ~(digits[k] = "_" /\ digits[k + 1] = "_")
        THEN <<TRUE, (IF CharAt(body, 1) = "-" THEN -1 ELSE 1) * IntOf(plain)>>
        ELSE <<FALSE, 0>>

\* the quarter and the year of a text of a quarter, by where its Q is (i0,
\* counted from 0): <<quarter, year>> as texts, empty when it is none
QuarterTexts(s, n, i0) ==
    IF i0 = 1 /\ (n = 4 \/ (n = 5 /\ s[3] = "-"))
    THEN <<SubSeq(s, 1, 1), SubSeq(s, n - 1, n), TRUE>>
    ELSE IF i0 = 1 /\ (n = 6 \/ (n = 7 /\ s[3] = "-"))
    THEN <<SubSeq(s, 1, 1), SubSeq(s, n - 3, n), FALSE>>
    ELSE IF i0 \in {2, 3} /\ (n = 4 \/ (n = 5 /\ s[i0] = "-"))
    THEN <<SubSeq(s, n, n), SubSeq(s, 1, 2), TRUE>>
    ELSE IF i0 \in {4, 5} /\ (n = 6 \/ (n = 7 /\ s[i0] = "-"))
    THEN <<SubSeq(s, n, n), SubSeq(s, 1, 4), FALSE>>
    ELSE <<>>

\* the outcomes of _parse_dateabbr_string on a quarter
NoQuarter == [quarter |-> FALSE, raised |-> FALSE, stamp |-> NoStamp]
BadQuarter == [quarter |-> FALSE, raised |-> TRUE, stamp |-> NoStamp]

\* the first day of a quarter of a year; a quarter that is none of 1..4 is
\* an error of its own (DateParseError), a year that is none goes on to
\* dateutil
QuarterStart(quarter, year) ==
    IF ~quarter[1] \/ ~year[1] THEN NoQuarter
    ELSE IF quarter[2] \notin 1..4 THEN BadQuarter
    ELSE IF year[2] \notin 1..9999 THEN NoQuarter
    ELSE [quarter |-> TRUE, raised |-> FALSE, stamp |-> StampOf(year[2], 3 * quarter[2] - 2, 1)]

QuarterOfTexts(texts) ==
    IF texts = <<>> THEN NoQuarter
    ELSE QuarterStart(PyInt(texts[1]),
                      IF texts[3] /\ PyInt(texts[2])[1]
                      THEN <<TRUE, 2000 + PyInt(texts[2])[2]>> ELSE PyInt(texts[2]))

\* _parse_dateabbr_string on the texts of a quarter such as 2024Q1, 1Q24
\* and 2024-Q1, in either case of the letter: a text of four to seven
\* characters with a Q among its second to sixth
QuarterAt(s, where) ==
    IF Len(s) \notin 4..7 \/ where = {} THEN NoQuarter
    ELSE QuarterOfTexts(QuarterTexts(s, Len(s), SetMin(where) - 1))

parse_dateabbr_string(s) ==
    QuarterAt(StrUpper(s), {k \in 2..IntMin(6, Len(s)) : ToUpperChar(s[k]) = "Q"})

(***************************************************************************)
(* dateutil.parser._timelex.split: a text as its tokens.  A token is a run *)
(* of letters, a run of digits, a number with a point, or one other        *)
(* character; a blank of any kind is the token " ".                        *)
(***************************************************************************)
\* the index after the token that starts at i, the state it ends in ("a"
\* letters, "0" digits, "a." letters and points, "0." digits and points) and
\* seenletters, which a character read in state "a" or "a." sets, the one
\* that ends the token too
RECURSIVE LexEnd(_, _, _, _, _)
LexEnd(s, i, j, state, seenletters) ==
    LET c == CharAt(s, j)
        seen == seenletters \/ (j <= Len(s) /\ state \in {"a", "a."})
        go == IF state = "a"
              THEN (IF IsLetter(c) THEN "a" ELSE IF c = "." THEN "a." ELSE "")
              ELSE IF state = "0"
              THEN (IF IsDigit(c) THEN "0"
                    ELSE IF c = "." \/ (c = "," /\ j - i >= 2) THEN "0." ELSE "")
              ELSE IF state = "a."
              THEN (IF c = "." \/ IsLetter(c) THEN "a."
                    ELSE IF IsDigit(c) /\ s[j - 1] = "." THEN "0." ELSE "")
              ELSE (IF c = "." \/ IsDigit(c) THEN "0."
                    ELSE IF IsLetter(c) /\ s[j - 1] = "." THEN "a." ELSE "")
    IN  IF go = "" THEN <<j, state, seen>> ELSE LexEnd(s, i, j + 1, go, seen)

\* re.split of a token at its points and commas, which stay as tokens; the
\* empty pieces are dropped
RECURSIVE SplitDecimal(_, _)
SplitDecimal(token, from) ==
    LET seps == {k \in from..Len(token) : token[k] \in {".", ","}}
        k == SetMin(seps)
    IN  IF from > Len(token) THEN <<>>
        ELSE IF seps = {} THEN <<SubSeq(token, from, Len(token))>>
        ELSE (IF k > from THEN <<SubSeq(token, from, k - 1)>> ELSE <<>>)
             \o <<<<token[k]>>>> \o SplitDecimal(token, k + 1)

\* the tokens a finished token stands for: one of points that has seen
\* letters, has two points, or ends in a point or comma is taken apart; a
\* decimal comma becomes a point
LexTokens(token, state, seenletters) ==
    IF /\ state \in {"a.", "0."}
       /\ \/ seenletters
          \/ Cardinality({k \in 1..Len(token) : token[k] = "."}) > 1
          \/ token[Len(token)] \in {".", ","}
    THEN SplitDecimal(token, 1)
    ELSE IF state = "0." /\ \A k \in 1..Len(token) : token[k] # "."
    THEN <<[k \in 1..Len(token) |-> IF token[k] = "," THEN "." ELSE token[k]]>>
    ELSE <<token>>

\* the token from i up to the end that LexEnd found
LexToken(s, i, end) == LexTokens(SubSeq(s, i, end[1] - 1), end[2], end[3])

RECURSIVE Timelex(_, _)
Timelex(s, i) ==
    IF i > Len(s) THEN <<>>
    ELSE IF IsLetter(s[i]) \/ IsDigit(s[i])
    THEN LexToken(s, i, LexEnd(s, i, i + 1, IF IsLetter(s[i]) THEN "a" ELSE "0", FALSE))
         \o Timelex(s, LexEnd(s, i, i + 1, IF IsLetter(s[i]) THEN "a" ELSE "0", FALSE)[1])
    ELSE <<IF IsSpace(s[i]) THEN <<" ">> ELSE <<s[i]>>>> \o Timelex(s, i + 1)

(***************************************************************************)
(* dateutil.parser.parser._parse with dayfirst and yearfirst off, as       *)
(* pandas calls it (dateutil_parse).  The words of parserinfo are matched  *)
(* in lower case.                                                          *)
(***************************************************************************)
\* parserinfo.JUMP
JumpWords ==
    {<<" ">>, <<".">>, <<",">>, <<";">>, <<"-">>, <<"/">>, <<"'">>, <<"a", "t">>, <<"o", "n">>, <<"a", "n", "d">>, <<"a", "d">>, <<"m">>, <<"t">>, <<"o", "f">>,
     <<"s", "t">>, <<"n", "d">>, <<"r", "d">>, <<"t", "h">>}

\* parserinfo.WEEKDAYS in lower case
WeekdayWords ==
    << <<"m", "o", "n", "d", "a", "y">>, <<"t", "u", "e", "s", "d", "a", "y">>, <<"w", "e", "d", "n", "e", "s", "d", "a", "y">>, <<"t", "h", "u", "r", "s", "d", "a", "y">>, <<"f", "r", "i", "d", "a", "y">>, <<"s", "a", "t", "u", "r", "d", "a", "y">>, <<"s", "u", "n", "d", "a", "y">> >>

\* the names of the months in lower case
MonthWords ==
    << <<"j", "a", "n", "u", "a", "r", "y">>, <<"f", "e", "b", "r", "u", "a", "r", "y">>, <<"m", "a", "r", "c", "h">>, <<"a", "p", "r", "i", "l">>, <<"m", "a", "y">>, <<"j", "u", "n", "e">>, <<"j", "u", "l", "y">>, <<"a", "u", "g", "u", "s", "t">>,
       <<"s", "e", "p", "t", "e", "m", "b", "e", "r">>, <<"o", "c", "t", "o", "b", "e", "r">>, <<"n", "o", "v", "e", "m", "b", "e", "r">>, <<"d", "e", "c", "e", "m", "b", "e", "r">> >>

\* the place of the word a token is in full or by its first three letters,
\* in any letter case; 0 if it is none of the words
WordIn(token, words) ==
    LET hit == {k \in 1..Len(words) : StrLower(token) \in {words[k], SubSeq(words[k], 1, 3)}}
    IN  IF hit = {} THEN 0 ELSE SetMin(hit)

\* parserinfo.jump
IsJump(token) == StrLower(token) \in JumpWords

\* parserinfo.weekday, 1 for Monday, 0 for no weekday
WeekdayOf(token) == WordIn(token, WeekdayWords)

\* parserinfo.month, 0 for no month: the names of MONTHS, Sept among them
MonthOf(token) == IF StrLower(token) = <<"s", "e", "p", "t">> THEN 9 ELSE WordIn(token, MonthWords)

\* parserinfo.ampm: 0 for am, 1 for pm, -1 for neither
AmPmOf(token) ==
    IF StrLower(token) \in {<<"a", "m">>, <<"a">>} THEN 0
    ELSE IF StrLower(token) \in {<<"p", "m">>, <<"p">>} THEN 1
    ELSE -1

\* parserinfo.hms: 0 for hours, 1 for minutes, 2 for seconds, -1 for none
HmsOf(token) ==
    IF StrLower(token) \in {<<"h">>, <<"h", "o", "u", "r">>, <<"h", "o", "u", "r", "s">>} THEN 0
    ELSE IF StrLower(token) \in {<<"m">>, <<"m", "i", "n", "u", "t", "e">>, <<"m", "i", "n", "u", "t", "e", "s">>} THEN 1
    ELSE IF StrLower(token) \in {<<"s">>, <<"s", "e", "c", "o", "n", "d">>, <<"s", "e", "c", "o", "n", "d", "s">>} THEN 2
    ELSE -1

\* parserinfo.UTCZONE
UtcZones == {<<"U", "T", "C">>, <<"G", "M", "T">>, <<"Z">>, <<"z">>}

\* the place of the point of a token, past its end when it has none
DotAt(token) ==
    LET dots == {k \in 1..Len(token) : token[k] = "."}
    IN  IF dots = {} THEN Len(token) + 1 ELSE SetMin(dots)

\* a token float() and Decimal() take: digits, or digits around one point
IsNumeric(token) ==
    \/ AllDigits(token)
    \/ /\ AllDigits(SubSeq(token, 1, DotAt(token) - 1))
       /\ AllDigits(SubSeq(token, DotAt(token) + 1, Len(token)))

\* int(Decimal(token)) and whether Decimal(token) is more than that
Whole(token) == IntOf(SubSeq(token, 1, DotAt(token) - 1))
HasFraction(token) == \E k \in (DotAt(token) + 1)..Len(token) : token[k] # "0"

\* Decimal(token) <= n
AtMost(token, n) == Whole(token) < n \/ (Whole(token) = n /\ ~HasFraction(token))

\* int(60 * (Decimal(token) % 1)), from the first six digits of the fraction
Sixtieths(token) ==
    LET fraction == SubSeq(token, DotAt(token) + 1, IntMin(Len(token), DotAt(token) + 6))
    IN  (60 * NumberOf(fraction)) \div PowerOfTen(Len(fraction))

\* parser._parsems: the microseconds of the seconds of a token
Micros(token) ==
    LET fraction == SubSeq(token, DotAt(token) + 1, IntMin(Len(token), DotAt(token) + 6))
    IN  NumberOf(fraction) * PowerOfTen(6 - Len(fraction))

\* int(text) of a token, -1 where int raises
IntText(text) == IF AllDigits(text) THEN IntOf(text) ELSE -1

(***************************************************************************)
(* The result under construction: _result and _ymd.  ymd holds the numbers *)
(* of year, month and day in the order they were read, ystridx and mstridx *)
(* the places of the ones known to be the year and the month (0: not       *)
(* known; nothing sets dstridx), -1 is an hour, minute or second not read, *)
(* flipped the place of a sign that a zone name before it reversed, at the *)
(* token to read next.                                                      *)
(***************************************************************************)
NewResult ==
    [failed |-> FALSE, at |-> 1, ymd |-> <<>>, ystridx |-> 0, mstridx |-> 0,
     century_specified |-> FALSE, hour |-> -1, minute |-> -1, second |-> -1,
     microsecond |-> 0, weekday |-> 0,
     tzname |-> FALSE, tzset |-> FALSE, tzoffset |-> 0, flipped |-> 0]

\* ValueError and IndexError inside _parse
Failed(res) == [res EXCEPT !.failed = TRUE]

\* the next token to read is token k
GoTo(res, k) == [res EXCEPT !.at = k]

\* _ymd.append of a number: a long one is the year, and a second year or a
\* second month is an error
YmdAdd(res, n, long, label) ==
    IF res.failed THEN res
    ELSE IF long /\ label = "M" THEN Failed(res)
    ELSE IF (long \/ label = "Y") /\ res.ystridx > 0 THEN Failed(res)
    ELSE IF label = "M" /\ res.mstridx > 0 THEN Failed(res)
    ELSE [res EXCEPT !.ymd = Append(@, n),
                     !.century_specified = @ \/ long,
                     !.ystridx = IF long \/ label = "Y" THEN Len(res.ymd) + 1 ELSE @,
                     !.mstridx = IF label = "M" THEN Len(res.ymd) + 1 ELSE @]

\* _ymd.append of a text: one of more than two digits is the year
YmdText(res, text, label) ==
    IF ~AllDigits(text) THEN Failed(res)
    ELSE YmdAdd(res, IntOf(text), Len(text) > 2, label)

\* _ymd.append of the Decimal of a numeric token: one above 100 is the year
YmdValue(res, token) == YmdAdd(res, Whole(token), ~AtMost(token, 100), "")

\* _ymd.could_be_day
could_be_day(res, token) ==
    /\ Whole(token) >= 1
    /\ AtMost(token, IF res.mstridx = 0 THEN 31
                     ELSE DaysInMonth(IF res.ystridx = 0 THEN 2000 ELSE res.ymd[res.ystridx],
                                      res.ymd[res.mstridx]))

\* parser._adjust_ampm
adjust_ampm(hour, ampm) ==
    IF hour < 12 /\ ampm = 1 THEN hour + 12
    ELSE IF hour = 12 /\ ampm = 0 THEN 0
    ELSE hour

\* parser._could_be_tzname
could_be_tzname(res, token) ==
    /\ res.hour >= 0 /\ ~res.tzname /\ ~res.tzset
    /\ Len(token) <= 5
    /\ (\A k \in 1..Len(token) : IsUpper(token[k])) \/ token \in UtcZones

(***************************************************************************)
(* parser._parse_numeric_token, a numeric token at place i, branch by      *)
(* branch in the order of the code.                                        *)
(***************************************************************************)
\* HH or HHMM after a full date
HourMinute(res, token) ==
    IF ~AllDigits(token) THEN Failed(res)
    ELSE [res EXCEPT !.hour = IntOf(SubSeq(token, 1, 2)),
                     !.minute = IF Len(token) = 4 THEN IntOf(SubSeq(token, 3, 4)) ELSE @]

\* the clock of a run of digits from place k on: HHMM or HHMMSS, the
\* seconds with a fraction or not
WithClock(res, token, k) ==
    [res EXCEPT !.hour = IntOf(SubSeq(token, k, k + 1)),
                !.minute = IntOf(SubSeq(token, k + 2, k + 3)),
                !.second = IF Len(token) > k + 3 THEN IntOf(SubSeq(token, k + 4, k + 5)) ELSE @,
                !.microsecond = IF Len(token) > k + 3 THEN Micros(token) ELSE @]

\* six digits: YYMMDD when nothing of a date was read before, else HHMMSS,
\* with a fraction or not
SixDigits(res, token) ==
    IF res.ymd = <<>> /\ DotAt(token) > Len(token)
    THEN YmdText(YmdText(YmdText(res, SubSeq(token, 1, 2), ""), SubSeq(token, 3, 4), ""),
                 SubSeq(token, 5, 6), "")
    ELSE IF DotAt(token) < 7 THEN Failed(res)
    ELSE WithClock(res, token, 1)

\* 8, 12 or 14 characters: YYYYMMDD, then HHMM, then SS
LongDigits(res, token) ==
    IF ~AllDigits(token) THEN Failed(res)
    ELSE IF Len(token) = 8
    THEN YmdText(YmdText(YmdAdd(res, IntOf(SubSeq(token, 1, 4)), TRUE, "Y"),
                         SubSeq(token, 5, 6), ""), SubSeq(token, 7, 8), "")
    ELSE WithClock(YmdText(YmdText(YmdAdd(res, IntOf(SubSeq(token, 1, 4)), TRUE, "Y"),
                                   SubSeq(token, 5, 6), ""), SubSeq(token, 7, 8), ""),
                   token, 9)

\* tokens[k], and the empty token where there is none
TokenAt(tokens, k) == IF k >= 1 /\ k <= Len(tokens) THEN tokens[k] ELSE <<>>

\* parser._find_hms_idx: the place of the word for hours, minutes or
\* seconds that belongs to the number at place i, 0 if there is none
find_hms_idx(tokens, i) ==
    IF HmsOf(TokenAt(tokens, i + 1)) >= 0 THEN i + 1
    ELSE IF TokenAt(tokens, i + 1) = <<" ">> /\ HmsOf(TokenAt(tokens, i + 2)) >= 0 THEN i + 2
    ELSE IF HmsOf(TokenAt(tokens, i - 1)) >= 0 THEN i - 1
    ELSE IF /\ i >= 3 /\ i = Len(tokens) /\ tokens[i - 1] = <<" ">>
            /\ HmsOf(tokens[i - 2]) >= 0
    THEN i - 2
    ELSE 0

\* parser._parse_min_sec: the minutes of a token, and the seconds its
\* fraction stands for
parse_min_sec(res, token) ==
    [res EXCEPT !.minute = Whole(token),
                !.second = IF HasFraction(token) THEN Sixtieths(token) ELSE -1]

\* parser._assign_hms: the number of hours (0), minutes (1) or seconds (2);
\* a number after the word for seconds is of no unit (3)
assign_hms(res, token, hms) ==
    IF hms = 0
    THEN [res EXCEPT !.hour = Whole(token),
                     !.minute = IF HasFraction(token) THEN Sixtieths(token) ELSE @]
    ELSE IF hms = 1 THEN parse_min_sec(res, token)
    ELSE IF hms = 2 THEN [res EXCEPT !.second = Whole(token), !.microsecond = Micros(token)]
    ELSE res

\* parser._parse_hms
parse_hms(tokens, i, res, hms_idx) ==
    IF hms_idx > i
    THEN GoTo(assign_hms(res, tokens[i], HmsOf(tokens[hms_idx])), hms_idx + 1)
    ELSE GoTo(assign_hms(res, tokens[i], HmsOf(tokens[hms_idx]) + 1), i + 1)

\* HH:MM and HH:MM:SS, the minutes and the seconds with a fraction or not
ColonClock(tokens, i, res) ==
    IF ~IsNumeric(tokens[i + 2]) THEN Failed(res)
    ELSE IF i + 4 <= Len(tokens) /\ tokens[i + 3] = <<":">>
    THEN IF ~IsNumeric(tokens[i + 4]) THEN Failed(res)
         ELSE GoTo([res EXCEPT !.hour = Whole(tokens[i]), !.minute = Whole(tokens[i + 2]),
                               !.second = Whole(tokens[i + 4]),
                               !.microsecond = Micros(tokens[i + 4])], i + 5)
    ELSE GoTo(parse_min_sec([res EXCEPT !.hour = Whole(tokens[i])], tokens[i + 2]), i + 3)

\* _ymd.append of the token after a separator: digits, or the name of a month
YmdMember(res, token, digits_first) ==
    IF digits_first /\ AllDigits(token) THEN YmdText(res, token, "")
    ELSE IF MonthOf(token) > 0 THEN YmdAdd(res, MonthOf(token), FALSE, "M")
    ELSE IF digits_first THEN Failed(res)
    ELSE YmdText(res, token, "")

\* a number before -, / or . : the date of two or three members the
\* separator joins
Separated(tokens, i, res) ==
    IF i + 2 > Len(tokens) \/ IsJump(tokens[i + 2]) THEN GoTo(res, i + 2)
    ELSE IF i + 3 <= Len(tokens) /\ tokens[i + 3] = tokens[i + 1]
    THEN IF i + 4 > Len(tokens) THEN Failed(res)
         ELSE GoTo(YmdMember(YmdMember(res, tokens[i + 2], TRUE), tokens[i + 4], FALSE), i + 5)
    ELSE GoTo(YmdMember(res, tokens[i + 2], TRUE), i + 3)

\* a number at the end or before a word to jump: an hour when am or pm
\* follows that word, else a year, month or day
BeforeJump(tokens, i, res) ==
    IF AmPmOf(TokenAt(tokens, i + 2)) >= 0
    THEN GoTo([res EXCEPT !.hour = adjust_ampm(Whole(tokens[i]), AmPmOf(tokens[i + 2]))], i + 3)
    ELSE GoTo(YmdValue(res, tokens[i]), i + 2)

parse_numeric_token(tokens, i, res) ==
    IF /\ Len(res.ymd) = 3 /\ Len(tokens[i]) \in {2, 4} /\ res.hour < 0
       /\ \/ i + 1 > Len(tokens)
          \/ tokens[i + 1] # <<":">> /\ HmsOf(tokens[i + 1]) < 0
    THEN GoTo(HourMinute(res, tokens[i]), i + 1)
    ELSE IF Len(tokens[i]) = 6 \/ (Len(tokens[i]) > 6 /\ DotAt(tokens[i]) = 7)
    THEN GoTo(SixDigits(res, tokens[i]), i + 1)
    ELSE IF Len(tokens[i]) \in {8, 12, 14}
    THEN GoTo(LongDigits(res, tokens[i]), i + 1)
    ELSE IF find_hms_idx(tokens, i) > 0
    THEN parse_hms(tokens, i, res, find_hms_idx(tokens, i))
    ELSE IF i + 2 <= Len(tokens) /\ tokens[i + 1] = <<":">>
    THEN ColonClock(tokens, i, res)
    ELSE IF TokenAt(tokens, i + 1) \in {<<"-">>, <<"/">>, <<".">>}
    THEN Separated(tokens, i, YmdText(res, tokens[i], ""))
    ELSE IF i + 1 > Len(tokens) \/ IsJump(tokens[i + 1])
    THEN BeforeJump(tokens, i, res)
    ELSE IF AmPmOf(tokens[i + 1]) >= 0 /\ Whole(tokens[i]) < 24
    THEN GoTo([res EXCEPT !.hour = adjust_ampm(Whole(tokens[i]), AmPmOf(tokens[i + 1]))], i + 2)
    ELSE IF could_be_day(res, tokens[i])
    THEN GoTo(YmdValue(res, tokens[i]), i + 1)
    ELSE Failed(res)

(***************************************************************************)
(* The other tokens of parser._parse.                                      *)
(***************************************************************************)
\* parserinfo.convertyear of a year without a century: the year of that
\* ending within fifty years of this one
convertyear(year, century_specified) ==
    IF year >= 100 \/ century_specified THEN year
    ELSE IF year + 2000 >= Today.year + 50 THEN year + 1900
    ELSE year + 2000

\* after the name of a month: Jan-15-2024, Jan/2024, or Jan of 24
AfterMonth(tokens, i, res) ==
    IF TokenAt(tokens, i + 1) \in {<<"-">>, <<"/">>}
    THEN IF i + 2 > Len(tokens) THEN Failed(res)
         ELSE IF i + 3 <= Len(tokens) /\ tokens[i + 3] = tokens[i + 1]
         THEN IF i + 4 > Len(tokens) THEN Failed(res)
              ELSE GoTo(YmdText(YmdText(res, tokens[i + 2], ""), tokens[i + 4], ""), i + 5)
         ELSE GoTo(YmdText(res, tokens[i + 2], ""), i + 3)
    ELSE IF /\ i + 4 <= Len(tokens) /\ tokens[i + 1] = <<" ">> /\ tokens[i + 3] = <<" ">>
            /\ StrLower(tokens[i + 2]) = <<"o", "f">>
    THEN IF AllDigits(tokens[i + 4])
         THEN GoTo(YmdAdd(res, convertyear(IntOf(tokens[i + 4]), FALSE), TRUE, "Y"), i + 5)
         ELSE GoTo(res, i + 5)
    ELSE GoTo(res, i + 1)

\* am or pm after an hour of the 12-hour clock
AfterAmPm(res, ampm) ==
    IF res.hour < 0 \/ res.hour > 12 THEN Failed(res)
    ELSE [res EXCEPT !.hour = adjust_ampm(@, ampm), !.at = @ + 1]

\* the name of a zone; a sign after it counts the other way round ("GMT+3"
\* is three hours behind), and a sign after the name of UTC leaves no name
ZoneName(tokens, i, res) ==
    IF TokenAt(tokens, i + 1) \in {<<"+">>, <<"-">>}
    THEN [res EXCEPT !.tzname = StrLower(tokens[i]) \notin {<<"u", "t", "c">>, <<"g", "m", "t">>, <<"z">>},
                     !.flipped = i + 1, !.at = i + 1]
    ELSE [res EXCEPT !.tzname = TRUE, !.at = i + 1]

\* the name of a zone in brackets after an offset, from place k on
BracketZone(tokens, k, res) ==
    IF /\ k + 3 <= Len(tokens) /\ IsJump(tokens[k]) /\ tokens[k + 1] = <<"(">>
       /\ tokens[k + 3] = <<")">> /\ Len(tokens[k + 2]) >= 3
       /\ could_be_tzname([res EXCEPT !.tzset = FALSE], tokens[k + 2])
    THEN [res EXCEPT !.tzname = TRUE, !.at = k + 4]
    ELSE GoTo(res, k)

\* the seconds of an offset; a day stands for every offset of a day or more
OffsetSeconds(hours, minutes) ==
    IF hours > 24 \/ minutes > 1500 THEN 86400 ELSE 3600 * hours + 60 * minutes

\* the offset of hours and minutes read, -1 for one that int() refuses
OffsetOf(tokens, k, res, sign, hours, minutes) ==
    IF hours < 0 \/ minutes < 0 THEN Failed(res)
    ELSE BracketZone(tokens, k, [res EXCEPT !.tzset = TRUE,
                                            !.tzoffset = sign * OffsetSeconds(hours, minutes)])

\* a sign after a time: the offset +HHMM, +HH:MM or +HH
NumberedZone(tokens, i, res, sign) ==
    IF i + 1 > Len(tokens) THEN Failed(res)
    ELSE IF Len(tokens[i + 1]) = 4
    THEN OffsetOf(tokens, i + 2, res, sign, IntText(SubSeq(tokens[i + 1], 1, 2)),
                  IntText(SubSeq(tokens[i + 1], 3, 4)))
    ELSE IF i + 2 <= Len(tokens) /\ tokens[i + 2] = <<":">>
    THEN IF i + 3 > Len(tokens) THEN Failed(res)
         ELSE OffsetOf(tokens, i + 4, res, sign, IntText(tokens[i + 1]), IntText(tokens[i + 3]))
    ELSE IF Len(tokens[i + 1]) <= 2
    THEN OffsetOf(tokens, i + 2, res, sign, IntText(tokens[i + 1]), 0)
    ELSE Failed(res)

\* one step of the loop of _parse: the token at res.at
ParseToken(tokens, i, res) ==
    IF IsNumeric(tokens[i]) THEN parse_numeric_token(tokens, i, res)
    ELSE IF StrLower(tokens[i]) \in {<<"i", "n", "f">>, <<"n", "a", "n">>, <<"i", "n", "f", "i", "n", "i", "t", "y">>} THEN Failed(res)
    ELSE IF WeekdayOf(tokens[i]) > 0 THEN [res EXCEPT !.weekday = WeekdayOf(tokens[i]), !.at = i + 1]
    ELSE IF MonthOf(tokens[i]) > 0
    THEN AfterMonth(tokens, i, YmdAdd(res, MonthOf(tokens[i]), FALSE, "M"))
    ELSE IF AmPmOf(tokens[i]) >= 0 THEN AfterAmPm(res, AmPmOf(tokens[i]))
    ELSE IF could_be_tzname(res, tokens[i]) THEN ZoneName(tokens, i, res)
    ELSE IF res.hour >= 0 /\ tokens[i] \in {<<"+">>, <<"-">>}
    THEN NumberedZone(tokens, i, res,
                      IF (tokens[i] = <<"+">>) = (res.flipped # i) THEN 1 ELSE -1)
    ELSE IF IsJump(tokens[i]) THEN GoTo(res, i + 1)
    ELSE Failed(res)

RECURSIVE ParseTokens(_, _)
ParseTokens(tokens, res) ==
    IF res.failed \/ res.at > Len(tokens) THEN res
    ELSE ParseTokens(tokens, ParseToken(tokens, res.at, res))

(***************************************************************************)
(* From the tokens read to the date: _ymd.resolve_ymd, parserinfo.validate *)
(* and the datetime that dateutil_parse of pandas builds.                  *)
(***************************************************************************)
\* _ymd._resolve_from_stridxs: year and month are known by their places, a
\* third number is the day
resolve_from_stridxs(ymd, y, m) ==
    << IF y > 0 THEN ymd[y] ELSE -1,
       IF m > 0 THEN ymd[m] ELSE -1,
       IF Len(ymd) = 3 THEN ymd[6 - y - m] ELSE -1 >>

\* three numbers, the month known by its place m or not (0)
ResolveThree(ymd, y, m) ==
    IF m = 1 THEN (IF ymd[2] > 31 THEN <<ymd[2], ymd[1], ymd[3]>> ELSE <<ymd[3], ymd[1], ymd[2]>>)
    ELSE IF m = 2
    THEN (IF ymd[1] > 31 THEN <<ymd[1], ymd[2], ymd[3]>> ELSE <<ymd[3], ymd[2], ymd[1]>>)
    ELSE IF m = 3
    THEN (IF ymd[2] > 31 THEN <<ymd[2], ymd[3], ymd[1]>> ELSE <<ymd[1], ymd[3], ymd[2]>>)
    ELSE IF ymd[1] > 31 \/ y = 1 THEN <<ymd[1], ymd[2], ymd[3]>>
    ELSE IF ymd[1] > 12 THEN <<ymd[3], ymd[2], ymd[1]>>
    ELSE <<ymd[3], ymd[1], ymd[2]>>

\* _ymd.resolve_ymd: <<year, month, day>>, -1 for the ones not given, and
\* <<>> for more than three numbers
resolve_ymd(ymd, y, m) ==
    IF \/ Len(ymd) = 1 /\ (y > 0 \/ m > 0)
       \/ Len(ymd) \in {2, 3} /\ y > 0 /\ m > 0
    THEN resolve_from_stridxs(ymd, y, m)
    ELSE IF Len(ymd) > 3 THEN <<>>
    ELSE IF Len(ymd) = 0 THEN <<-1, -1, -1>>
    ELSE IF Len(ymd) = 1 THEN (IF ymd[1] > 31 THEN <<ymd[1], -1, -1>> ELSE <<-1, -1, ymd[1]>>)
    ELSE IF Len(ymd) = 2 /\ m > 0
    THEN (IF ymd[3 - m] > 31 THEN <<ymd[3 - m], ymd[m], -1>> ELSE <<-1, ymd[m], ymd[3 - m]>>)
    ELSE IF Len(ymd) = 2
    THEN (IF ymd[1] > 31 THEN <<ymd[1], ymd[2], -1>>
          ELSE IF ymd[2] > 31 THEN <<ymd[2], ymd[1], -1>>
          ELSE <<-1, ymd[1], ymd[2]>>)
    ELSE ResolveThree(ymd, y, m)

\* date + timedelta(days), days less than a month
AddDays(date, days) ==
    IF date.day + days <= DaysInMonth(date.year, date.month)
    THEN [date EXCEPT !.day = @ + days]
    ELSE [ok |-> TRUE,
          year |-> IF date.month = 12 THEN date.year + 1 ELSE date.year,
          month |-> IF date.month = 12 THEN 1 ELSE date.month + 1,
          day |-> date.day + days - DaysInMonth(date.year, date.month)]

\* date + relativedelta(weekday=weekday): the first such day of the week
\* from the date on
OnWeekday(date, weekday) ==
    AddDays(date, (7 + weekday - IsoWeekday(date.year, date.month, date.day)) % 7)

\* datetime.replace accepts the fields
ValidFields(year, month, day, hour, minute, second) ==
    /\ year \in 1..9999 /\ month \in 1..12 /\ day \in 1..DaysInMonth(year, month)
    /\ hour <= 23 /\ minute <= 59 /\ second <= 59

\* the moment of a date and a clock, an hour, minute or second not read
\* being 0
StampAt(date, res) ==
    [parsed |-> TRUE, year |-> date.year, month |-> date.month, day |-> date.day,
     second |-> 3600 * IntMax(res.hour, 0) + 60 * IntMax(res.minute, 0) + IntMax(res.second, 0),
     nanos |-> 1000 * res.microsecond,
     tzoffset |-> IF res.tzset THEN res.tzoffset ELSE 0]

\* default.replace with the fields read, -1 standing for none, and the
\* move to the day of the week read when no day of the month was
Replaced(res, default, year, month, day) ==
    IF ~ValidFields(IF year < 0 THEN default.year ELSE year,
                    IF month < 0 THEN default.month ELSE month,
                    IF day < 0 THEN default.day ELSE day,
                    res.hour, res.minute, res.second)
    THEN NoStamp
    ELSE IF res.weekday > 0 /\ day < 0
    THEN StampAt(OnWeekday([ok |-> TRUE,
                            year |-> IF year < 0 THEN default.year ELSE year,
                            month |-> IF month < 0 THEN default.month ELSE month,
                            day |-> default.day], res.weekday), res)
    ELSE StampAt([ok |-> TRUE,
                  year |-> IF year < 0 THEN default.year ELSE year,
                  month |-> IF month < 0 THEN default.month ELSE month,
                  day |-> IF day < 0 THEN default.day ELSE day], res)

\* what dateutil_parse makes of the result of _parse: nothing when _parse
\* failed, when no field at all was read, or when the offset is a day or
\* more
Built(res, default, ymd) ==
    IF res.failed \/ ymd = <<>> THEN NoStamp
    ELSE IF ymd = <<-1, -1, -1>> /\ res.hour < 0 /\ res.minute < 0 /\ res.second < 0 THEN NoStamp
    ELSE IF res.tzset /\ (res.tzoffset <= -86400 \/ res.tzoffset >= 86400) THEN NoStamp
    ELSE Replaced(res, default,
                  IF ymd[1] < 0 THEN -1 ELSE convertyear(ymd[1], res.century_specified),
                  ymd[2], ymd[3])

\* _DEFAULT_DATETIME
DefaultDate == [ok |-> TRUE, year |-> 1, month |-> 1, day |-> 1]

BuiltFrom(res, default) == Built(res, default, resolve_ymd(res.ymd, res.ystridx, res.mstridx))

\* dateutil_parse of pandas
dateutil_parse(s, default) == BuiltFrom(ParseTokens(Timelex(s, 1), NewResult), default)

\* the parsers after the ISO parser, in the order of parse_datetime_string:
\* a text of a time takes the date of today, a quarter is read by
\* _parse_dateabbr_string, and dateutil reads the rest.  (_parse_delimited_date
\* and the strptime patterns of _parse_dateabbr_string are shortcuts to the
\* dates that dateutil gives the same texts.)
AfterQuarter(s, quarter) ==
    IF quarter.raised THEN NoStamp
    ELSE IF quarter.quarter THEN quarter.stamp
    ELSE dateutil_parse(s, DefaultDate)

parse_datetime_string(s) ==
    IF ~LooksLikeDatetime(s) THEN NoStamp
    ELSE IF LooksLikeTime(s) THEN dateutil_parse(s, Today)
    ELSE AfterQuarter(s, parse_dateabbr_string(s))

(***************************************************************************)
(* The range of a Timestamp of nanoseconds.                                *)
(***************************************************************************)
\* moment a is no later than moment b: <<date key, second of the day, nanosecond>>
MomentLeq(a, b) ==
    \/ a[1] < b[1]
    \/ a[1] = b[1] /\ a[2] < b[2]
    \/ a[1] = b[1] /\ a[2] = b[2] /\ a[3] <= b[3]

\* a limit moved by less than a day: days are the date keys of the day
\* before, the day and the day after
MovedLimit(days, second, nanos, shift) ==
    IF second + shift < 0 THEN <<days[1], second + shift + 86400, nanos>>
    ELSE IF second + shift >= 86400 THEN <<days[3], second + shift - 86400, nanos>>
    ELSE <<days[2], second + shift, nanos>>

\* Timestamp.min is 1677-09-21 00:12:43.145224193
TimestampMin(shift) == MovedLimit(<<16770920, 16770921, 16770922>>, 763, 145224193, shift)

\* Timestamp.max is 2262-04-11 23:47:16.854775807
TimestampMax(shift) == MovedLimit(<<22620410, 22620411, 22620412>>, 85636, 854775807, shift)

\* the moment is within the range when moved by shift seconds
InBounds(moment, shift) ==
    MomentLeq(TimestampMin(shift), moment) /\ MomentLeq(moment, TimestampMax(shift))

\* the Timestamp of a moment: both its wall-clock time and its time in UTC
\* have to be in the range (OutOfBoundsDatetime, a ValueError, otherwise);
\* the date is the one of the wall clock
MomentOf(stamp) ==
    <<stamp.year * 10000 + stamp.month * 100 + stamp.day, stamp.second, stamp.nanos>>

TimestampOf(stamp) ==
    IF /\ stamp.parsed
       /\ stamp.year \in 1..9999
       /\ InBounds(MomentOf(stamp), 0) /\ InBounds(MomentOf(stamp), stamp.tzoffset)
    THEN [ok |-> TRUE, year |-> stamp.year, month |-> stamp.month, day |-> stamp.day]
    ELSE NoDate

\* the parsers of pandas in their order: the ISO parser, and where it gives
\* up the others
ParsedBy(s, iso) == IF iso.parsed THEN iso ELSE parse_datetime_string(s)

\* pd.to_datetime(date_str) followed by strftime: the date, or the failure
\* (ValueError) that an empty or missing text (NaT has no strftime), a text
\* that no parser reads, or a moment out of the range of Timestamp ends in
to_datetime(date_str) ==
    IF date_str = <<>> \/ date_str \in NatStrings THEN NoDate
    ELSE IF date_str \in {<<"n", "o", "w">>, <<"t", "o", "d", "a", "y">>} THEN Today
    ELSE TimestampOf(ParsedBy(date_str, parse_iso_8601_datetime(date_str)))

\* int(date_obj.strftime('%Y%m%d'))
DateKeyOf(date) == date.year * 10000 + date.month * 100 + date.day

\* f"Q{date_obj.quarter}"
QuarterOf(month) ==
    IF month <= 3 THEN "Q1" ELSE IF month <= 6 THEN "Q2" ELSE IF month <= 9 THEN "Q3" ELSE "Q4"

\* date_obj.strftime('%Y-%m-%d')
DateString(y, m, d) == ZeroPad(y, 4) \o <<"-">> \o ZeroPad(m, 2) \o <<"-">> \o ZeroPad(d, 2)

\* the suffix list of build_bridge_fact_entity
BridgeSuffixes ==
    << <<" ", "i", "n", "c">>,
       <<" ", "i", "n", "c", ".">>,
       <<" ", "i", "n", "c", "o", "r", "p", "o", "r", "a", "t", "e", "d">>,
       <<" ", "c", "o", "r", "p">>,
       <<" ", "c", "o", "r", "p", ".">>,
       <<" ", "c", "o", "r", "p", "o", "r", "a", "t", "i", "o", "n">>,
       <<" ", "l", "t", "d">>,
       <<" ", "l", "t", "d", ".">>,
       <<" ", "l", "i", "m", "i", "t", "e", "d">>,
       <<" ", "l", "l", "c">>,
       <<" ", "c", "o", "m", "p", "a", "n", "y">>,
       <<" ", "c", "o">>,
       <<" ", "c", "o", ".">>,
       <<" ", "p", "h", "a", "r", "m", "a", "c", "e", "u", "t", "i", "c", "a", "l", "s">>,
       <<" ", "p", "h", "a", "r", "m", "a">>,
       <<" ", "b", "i", "o", "t", "e", "c", "h">>,
       <<" ", "b", "i", "o", "t", "e", "c", "h", "n", "o", "l", "o", "g", "y">>,
       <<" ", "t", "h", "e", "r", "a", "p", "e", "u", "t", "i", "c", "s">>,
       <<" ", "b", "i", "o", "s", "c", "i", "e", "n", "c", "e", "s">> >>

NewsTerms ==
    { <<"n", "e", "w", "s">>,
      <<"t", "i", "m", "e", "s">>,
      <<"p", "o", "s", "t">>,
      <<"j", "o", "u", "r", "n", "a", "l">>,
      <<"r", "e", "p", "o", "r", "t">> }

GovernmentTerms ==
    { <<"f", "d", "a">>,
      <<"e", "m", "a">>,
      <<"w", "h", "o">>,
      <<"n", "i", "h">>,
      <<"g", "o", "v">> }

AcademicTerms ==
    { <<"u", "n", "i", "v", "e", "r", "s", "i", "t", "y">>,
      <<"c", "o", "l", "l", "e", "g", "e">>,
      <<"i", "n", "s", "t", "i", "t", "u", "t", "e">> }

IndustryTerms ==
    { <<"b", "i", "o", "t", "e", "c", "h">>,
      <<"p", "h", "a", "r", "m", "a">>,
      <<"m", "e", "d", "i", "c", "a", "l">>,
      <<"h", "e", "a", "l", "t", "h">> }


(***************************************************************************)
(* BatchProcessor._process_batch: a chunk is a header and its well-formed  *)
(* rows, a row being the sequence of its fields.                           *)
(***************************************************************************)
HasColumn(header, col) == \E i \in 1..Len(header) : header[i] = col

\* str(article.get(col, '')): the field of a row under the column col
ColumnOf(header, row, col) ==
    IF HasColumn(header, col)
    THEN row[SetMin({i \in 1..Len(header) : header[i] = col})]
    ELSE <<>>

\* the columns of the input an article is read by
ArticleColumns ==
    {"Date", "Source", "Headline", "Body/abstract/extract", "Consolidated_Text",
     "matched_keywords"}

\* the article (a row of chunk_df) a well-formed CSV row is
ArticleOf(header, row) ==
    [columns |-> {col \in ArticleColumns : HasColumn(header, col)},
     Date |-> ColumnOf(header, row, "Date"),
     Source |-> ColumnOf(header, row, "Source"),
     Headline |-> ColumnOf(header, row, "Headline"),
     Body |-> ColumnOf(header, row, "Body/abstract/extract"),
     Consolidated_Text |-> ColumnOf(header, row, "Consolidated_Text"),
     matched_keywords |-> ColumnOf(header, row, "matched_keywords")]

\* the row of tagged_df that _process_batch builds for one article: steps A
\* (normalize), B (match tags) and C (extract entities)
TaggedRow(article, tags, entities, rejected) ==
    [columns |-> article.columns,
     Date |-> article.Date,
     Source |-> article.Source,
     Headline |-> article.Headline,
     matched_tags |-> [k \in 1..Len(tags) |-> tags[k][1]],
     tag_confidence_scores |-> tags,
     extracted_entities |-> [k \in 1..Len(entities) |-> entities[k][1]],
     entity_types |-> [k \in 1..Len(entities) |-> entities[k][2]],
     entity_confidence_scores |-> [k \in 1..Len(entities) |-> <<entities[k][1], entities[k][3]>>],
     entity_mention_counts |-> [k \in 1..Len(entities) |-> <<entities[k][1], entities[k][4]>>],
     rejected |-> rejected]

\* the rows steps B and C can make of an article, one for every order in which
\* the sets they iterate can be iterated: column_tags is the set of the tags of
\* the hint column, keyword_entities and known_entities are the sets of the
\* entities of the hints and of the text
TaggedRowsFrom(article, combined, reg, column_tags, from_text, keyword_entities, known_entities, rejected) ==
    [seed \in SeedsOf(reg.seed, {column_tags}, {keyword_entities, known_entities}) |->
        TaggedRow(article,
                  MatchOrdered(IterationOrder(column_tags, seed.tags), from_text),
                  ExtractOrdered(article, combined, reg,
                                 IterationOrder(keyword_entities, seed.entities),
                                 IterationOrder(known_entities, seed.entities)),
                  rejected)]

\* steps B and C on an article and its combined normalized text under every
\* order of the sets they iterate
TaggedRows(tag_definitions, reg, article, combined) ==
    TaggedRowsFrom(article, combined, reg,
                   check_matched_keywords_column(tag_definitions, article),
                   search_text_for_tags(tag_definitions, combined, 1),
                   KeywordEntities(article, reg), KnownEntities(combined, reg),
                   RejectedOf(article, reg))

\* steps A, B and C on an article under every order of the sets B and C iterate
ProcessArticleOrders(tag_definitions, reg, article) ==
    TaggedRows(tag_definitions, reg, article,
               normalize_article_text(article).combined_normalized)

\* steps A, B and C on an article in the process of seed reg.seed: the row of
\* tagged_df
ProcessArticle(tag_definitions, reg, article) ==
    RowUnder(ProcessArticleOrders(tag_definitions, reg, article), reg.seed)

\* the texts the names of an article and of a company list are taken from
NameTexts(company_list, article) ==
    {article.matched_keywords, normalize_article_text(article).combined_normalized}
        \cup {CellText(company_list[k].Company_Name) :
                 k \in {k \in 1..Len(company_list) : "Company_Name" \in DOMAIN company_list[k]}}

\* the seeds that put the suffixes of first first and differ on the order of
\* self.known_companies as the company file fills it
CompanySeeds(company_file, first) ==
    {WithCompanies(SuffixSeed(first), order) :
        order \in OrdersOver(Iterated({InitCompanies(company_file, SuffixSeed(first)).known}))}

\* the seeds that agree with that of the extractor reg and differ on the sets
\* that steps B and C iterate for an article
ArticleSeedsUnder(tag_definitions, reg, article, combined) ==
    SeedsOf(reg.seed,
            {check_matched_keywords_column(tag_definitions, article)},
            {KeywordEntities(article, reg), KnownEntities(combined, reg)})

\* the seeds that differ on what steps B and C do to an article
ArticleSeeds(tag_definitions, company_file, article) ==
    UNION {UNION {ArticleSeedsUnder(tag_definitions, InitCompanies(company_file, seed),
                                    article,
                                    normalize_article_text(article).combined_normalized) :
                     seed \in CompanySeeds(company_file, first)} :
              first \in Perms(ContendedIn(NameTexts(company_file.rows, article)))}

\* all_entities_dict[normalized] = ... of batch_extract_entities: the best
\* representation of a normalized name is the one of highest confidence, the
\* longer display name winning a tie
UpsertBatchEntity(all_entities_dict, display_name, entity_type, confidence) ==
    LET normalized == normalize_entity_name(display_name)
        at == {k \in 1..Len(all_entities_dict) : all_entities_dict[k].normalized = normalized}
        k == SetMin(at)
        entry == [normalized |-> normalized, display |-> display_name,
                  type |-> entity_type, confidence |-> confidence]
    IN  IF normalized = <<>> THEN all_entities_dict
        ELSE IF at = {} THEN Append(all_entities_dict, entry)
        ELSE IF \/ confidence > all_entities_dict[k].confidence
                \/ /\ confidence = all_entities_dict[k].confidence
                   /\ Len(display_name) > Len(all_entities_dict[k].display)
        THEN [all_entities_dict EXCEPT ![k] = entry]
        ELSE all_entities_dict

\* the entities of one processed article folded into all_entities_dict
RECURSIVE CollectArticle(_, _, _)
CollectArticle(all_entities_dict, processed, k) ==
    IF k > Len(processed.extracted_entities) THEN all_entities_dict
    ELSE LET next == UpsertBatchEntity(all_entities_dict, processed.extracted_entities[k],
                                       processed.entity_types[k],
                                       processed.entity_confidence_scores[k][2])
         IN  IF Len(next) >= 0 THEN CollectArticle(next, processed, k + 1)
             ELSE all_entities_dict

\* the articles of a batch folded into all_entities_dict, in row order
RECURSIVE CollectBatch(_, _, _)
CollectBatch(all_entities_dict, batch, r) ==
    IF r > Len(batch) THEN all_entities_dict
    ELSE LET next == CollectArticle(all_entities_dict, batch[r], 1)
         IN  IF Len(next) >= 0 THEN CollectBatch(next, batch, r + 1)
             ELSE all_entities_dict

\* all_entities_dict[normalized]
EntryOf(all_entities_dict, normalized) ==
    all_entities_dict[CHOOSE k \in 1..Len(all_entities_dict) :
                         all_entities_dict[k].normalized = normalized]

\* the rows for the keys of all_entities_dict in the given order
DimEntityRows(all_entities_dict, sorted_keys) ==
    [i \in 1..Len(sorted_keys) |->
        [Entity_Name |-> EntryOf(all_entities_dict, sorted_keys[i]).display,
         Entity_Type |-> EntryOf(all_entities_dict, sorted_keys[i]).type,
         Entity_Domain |-> "Healthcare"]]

\* for normalized, info in sorted(all_entities_dict.items())
DimEntityOf(all_entities_dict) ==
    DimEntityRows(all_entities_dict,
                  SortedSeq({all_entities_dict[k].normalized : k \in 1..Len(all_entities_dict)},
                            StrLess))

\* dim_entity_df of batch_extract_entities: one row per normalized name of the
\* batch, in sorted order of the normalized names
BatchDimEntity(batch) == DimEntityOf(CollectBatch(<<>>, batch, 1))

\* rejected_entities_list of batch_extract_entities
RECURSIVE BatchRejected(_)
BatchRejected(batch) ==
    IF batch = <<>> THEN <<>> ELSE Head(batch).rejected \o BatchRejected(Tail(batch))

\* str.isdigit()
IsDigits(s) == s # <<>> /\ \A i \in 1..Len(s) : IsDigit(s[i])

\* the first test of the source filter alone
LongEnoughSource(source_str) == Len(source_str) >= 2

\* the source filter of _accumulate_dimensions, of
\* _build_dim_source_from_accumulator and of build_dim_source
ValidSource(source_str) ==
    /\ Len(source_str) >= 2
    /\ ~IsDigits(source_str)
    /\ Len(source_str) <= 100
    /\ \E i \in 1..Len(source_str) : IsAlnum(source_str[i])

\* _classify_source_type
classify_source_type(source_name) ==
    LET has(terms) == \E term \in terms : Contains(StrLower(source_name), term)
    IN  IF has(NewsTerms) THEN "News"
        ELSE IF has(GovernmentTerms) THEN "Government"
        ELSE IF has(AcademicTerms) THEN "Academic"
        ELSE IF has(IndustryTerms) THEN "Industry"
        ELSE "Other"

\* the tuple _accumulate_dimensions adds for a date that parses
TimeTuple(date_obj) ==
    <<DateKeyOf(date_obj), date_obj.year, QuarterOf(date_obj.month),
      MonthNames[date_obj.month], date_obj.day>>

\* what _accumulate_dimensions adds to self.dim_time_accumulator for the
\* values of chunk['Date']
TimeTuples(dates) ==
    {TimeTuple(date_obj) : date_obj \in {date_obj \in {to_datetime(dates[r]) : r \in 1..Len(dates)} :
                                             date_obj.ok}}

\* the tuple _accumulate_dimensions adds for a source it keeps
SourceTuple(source_str) == <<source_str, classify_source_type(source_str)>>

\* what _accumulate_dimensions adds to self.dim_source_accumulator for the
\* values of chunk['Source']
SourceTuples(sources) ==
    {SourceTuple(source_str) :
        source_str \in {source_str \in {Strip(sources[r]) : r \in 1..Len(sources)} :
                           ValidSource(source_str)}}

\* what _accumulate_dimensions adds to self.dim_entity_accumulator: the rows of
\* the batch's dim_entity_df as they are
EntityTuples(batch_dim_entity) ==
    {<<batch_dim_entity[k].Entity_Name, batch_dim_entity[k].Entity_Type,
       batch_dim_entity[k].Entity_Domain>> : k \in 1..Len(batch_dim_entity)}

(***************************************************************************)
(* Finalization: the dimension tables from the accumulators, and           *)
(* StarSchemaBuilder.  A table is the sequence of its rows; an empty       *)
(* DataFrame has no columns.                                               *)
(***************************************************************************)
\* the values of the string columns that get sorted, in Python's string order
TextOrder ==
    << "Academic", "Company", "Government", "Healthcare", "Industry", "News",
       "Organization", "Other" >>
TextLess(a, b) ==
    \E i, j \in 1..Len(TextOrder) : TextOrder[i] = a /\ TextOrder[j] = b /\ i < j

\* (name, type) < (name, type) for two tuples of the source accumulator
TupleLess(a, b) == StrLess(a[1], b[1]) \/ (a[1] = b[1] /\ TextLess(a[2], b[2]))

\* (name, type, domain) < (name, type, domain) for two tuples of the entity
\* accumulator, the domain being the same in all of them
EntityTupleLess(a, b) == StrLess(a[1], b[1]) \/ (a[1] = b[1] /\ StrLess(a[2], b[2]))

\* the columns of a frame of articles; a frame without rows is pd.DataFrame([])
\* and has none
ColumnsOf(articles_df) == IF articles_df = <<>> THEN {} ELSE articles_df[1].columns

\* the Dim_Time row of a date
TimeRow(y, m, d) ==
    [Date_Key |-> y * 10000 + m * 100 + d,
     Year |-> y,
     Quarter |-> QuarterOf(m),
     Month |-> MonthNames[m],
     Month_Number |-> m,
     Day |-> d,
     Day_of_Week |-> DayNames[IsoWeekday(y, m, d)],
     Week_of_Year |-> IsoWeek(y, m, d),
     Date_String |-> DateString(y, m, d)]

\* BatchProcessor._build_dim_time_from_accumulator: the accumulated tuples in
\* sorted order; every accumulated key has the eight digits of YYYYMMDD
build_dim_time_from_accumulator(dim_time_accumulator) ==
    LET sorted == SortedSeq(dim_time_accumulator, LAMBDA a, b : a[1] < b[1])
    IN  [k \in 1..Len(sorted) |->
            TimeRow(sorted[k][1] \div 10000, (sorted[k][1] \div 100) % 100, (sorted[k][1] % 100))]

\* BatchProcessor._build_dim_source_from_accumulator
build_dim_source_from_accumulator(dim_source_accumulator) ==
    LET valid_sources == {<<Strip(t[1]), t[2]>> :
                             t \in {t \in dim_source_accumulator : ValidSource(Strip(t[1]))}}
        sorted == SortedSeq(valid_sources, TupleLess)
    IN  [i \in 1..Len(sorted) |->
            [Source_Key |-> i, Source_Name |-> sorted[i][1], Source_Type |-> sorted[i][2]]]

\* the accumulated tuples keyed from 200 on in descending order
DimEntityDescending(dim_entity_accumulator) ==
    LET sorted_entities == SortedSeq(dim_entity_accumulator, LAMBDA a, b : EntityTupleLess(b, a))
    IN  [i \in 1..Len(sorted_entities) |->
            [Entity_Key |-> 200 + (i - 1),
             Entity_Name |-> sorted_entities[i][1],
             Entity_Type |-> sorted_entities[i][2],
             Entity_Domain |-> sorted_entities[i][3]]]

\* BatchProcessor._build_dim_entity_from_accumulator
build_dim_entity_from_accumulator(dim_entity_accumulator) ==
    LET sorted_entities == SortedSeq(dim_entity_accumulator, EntityTupleLess)
    IN  [i \in 1..Len(sorted_entities) |->
            [Entity_Key |-> 200 + (i - 1),
             Entity_Name |-> sorted_entities[i][1],
             Entity_Type |-> sorted_entities[i][2],
             Entity_Domain |-> sorted_entities[i][3]]]

\* the first occurrences of a sequence's elements, in order (Series.unique, and
\* drop_duplicates when key is applied to rows)
FirstByKey(s, key(_)) ==
    SelectSeq([i \in 1..Len(s) |-> <<s[i], \A j \in 1..(i - 1) : key(s[j]) # key(s[i])>>],
              LAMBDA p : p[2])

SentinelDateKey == 19000101

\* the Dim_Time row build_dim_time gives to a date it cannot parse
SentinelTimeRow ==
    [Date_Key |-> SentinelDateKey, Year |-> 1900, Quarter |-> "Q1", Month |-> "January",
     Month_Number |-> 1, Day |-> 1, Day_of_Week |-> "Monday", Week_of_Year |-> 1,
     Date_String |-> <<"1", "9", "0", "0", "-", "0", "1", "-", "0", "1">>]

\* the row build_dim_time appends for one unique date
TimeRowOrSentinel(date_obj) ==
    IF date_obj.ok THEN TimeRow(date_obj.year, date_obj.month, date_obj.day)
    ELSE SentinelTimeRow

\* the rows of build_dim_time: one for every unique date, the first row of
\* every date key kept
BuiltTimeRows(articles_df) ==
    LET dates == FirstByKey([r \in 1..Len(articles_df) |-> articles_df[r].Date], LAMBDA x : x)
        time_data == [k \in 1..Len(dates) |-> TimeRowOrSentinel(to_datetime(dates[k][1]))]
        kept == FirstByKey(time_data, LAMBDA row : row.Date_Key)
    IN  [k \in 1..Len(kept) |-> kept[k][1]]

\* StarSchemaBuilder.build_dim_time: articles_df['Date'] raises the KeyError on
\* a frame without the column
build_dim_time(articles_df) ==
    IF "Date" \notin ColumnsOf(articles_df)
    THEN [error |-> "KeyError", dim_time |-> <<>>]
    ELSE [error |-> "", dim_time |-> BuiltTimeRows(articles_df)]

\* the rows of build_dim_source: the valid sources, trimmed and sorted
BuiltSourceRows(articles_df) ==
    LET valid_sources == {Strip(articles_df[r].Source) :
                             r \in {r \in 1..Len(articles_df) :
                                       ValidSource(Strip(articles_df[r].Source))}}
        sorted == SortedSeq(valid_sources, StrLess)
    IN  [i \in 1..Len(sorted) |->
            [Source_Key |-> i, Source_Name |-> sorted[i],
             Source_Type |-> classify_source_type(sorted[i])]]

\* StarSchemaBuilder.build_dim_source: articles_df['Source'] raises the
\* KeyError on a frame without the column
build_dim_source(articles_df) ==
    IF "Source" \notin ColumnsOf(articles_df)
    THEN [error |-> "KeyError", dim_source |-> <<>>]
    ELSE [error |-> "", dim_source |-> BuiltSourceRows(articles_df)]

\* StarSchemaBuilder.build_dim_tag: the rows of tag_definitions keyed from 10
\* on; the column selection that ends it raises the KeyError on a frame
\* without the tag columns, as the column-less pd.DataFrame([]) is
build_dim_tag(tag_definitions) ==
    IF \/ tag_definitions = <<>>
       \/ \E t \in 1..Len(tag_definitions) :
             ~({"Tag_Name", "Tag_Category", "Tag_Domain"} \subseteq DOMAIN tag_definitions[t])
    THEN [error |-> "KeyError", dim_tag |-> <<>>]
    ELSE [error |-> "",
          dim_tag |-> [t \in 1..Len(tag_definitions) |->
                         [Tag_Key |-> 10 + (t - 1),
                          Tag_Name |-> tag_definitions[t].Tag_Name,
                          Tag_Category |-> tag_definitions[t].Tag_Category,
                          Tag_Domain |-> tag_definitions[t].Tag_Domain]]]

\* the rows of build_dim_entity: the entity names of the articles, each a
\* 'Company', keyed from self.entity_key_counter on
BuiltEntityRows(articles_df, entity_key_counter) ==
    LET all_entities == UNION {Range(articles_df[r].extracted_entities) : r \in 1..Len(articles_df)}
        sorted == SortedSeq(all_entities, StrLess)
    IN  [i \in 1..Len(sorted) |->
            [Entity_Key |-> entity_key_counter + (i - 1),
             Entity_Name |-> sorted[i],
             Entity_Type |-> CompanyType,
             Entity_Domain |-> "Healthcare"]]

\* StarSchemaBuilder.build_dim_entity: the table and self.entity_key_counter,
\* which every row advances by one; articles_df['extracted_entities'] raises
\* the KeyError on a frame without columns
build_dim_entity(articles_df, entity_key_counter) ==
    IF articles_df = <<>>
    THEN [error |-> "KeyError", dim_entity |-> <<>>, entity_key_counter |-> entity_key_counter]
    ELSE [error |-> "",
          dim_entity |-> BuiltEntityRows(articles_df, entity_key_counter),
          entity_key_counter |->
              entity_key_counter + Len(BuiltEntityRows(articles_df, entity_key_counter))]

\* the date key without the except branch: what the fields of a date that
\* did not parse add up to
DateKeyUnguarded(date_obj) == DateKeyOf(date_obj)

\* int(date_obj.strftime('%Y%m%d')), 19000101 when the date does not parse
DateKeyOrSentinel(date_obj) == IF date_obj.ok THEN DateKeyOf(date_obj) ELSE SentinelDateKey

FactDateKey(date_str) == DateKeyOrSentinel(to_datetime(date_str))

\* source_to_key.get(source_name, 1)
FactSourceKey(source_name, dim_source) ==
    LET at == {k \in 1..Len(dim_source) : dim_source[k].Source_Name = source_name}
    IN  IF at = {} THEN 1 ELSE dim_source[SetMax(at)].Source_Key

\* clean_value of build_fact_document: the trimmed text, the empty text for
\* "nan", "none" and the blank in any case
clean_value(val) ==
    IF StrLower(Strip(val)) \in {NanLiteral, NoneLiteral, <<>>} THEN <<>> ELSE Strip(val)

\* str(article.get('Source', 'Unknown'))
SourceNameOf(article) ==
    IF "Source" \in article.columns THEN article.Source
    ELSE <<"U", "n", "k", "n", "o", "w", "n">>

\* one row of StarSchemaBuilder.build_fact_document; Year 0 and the texts "None"
\* stand for Python's None
FactRowOf(idx, article, dim_time, dim_source, date_obj, date_key, source_key) ==
    LET time_info == {k \in 1..Len(dim_time) : dim_time[k].Date_Key = date_key}
        source_info == {k \in 1..Len(dim_source) : dim_source[k].Source_Key = source_key}
    IN  [Fact_ID |-> 1000 + idx,
         Date_Key |-> date_key,
         Source_Key |-> source_key,
         Year |-> IF time_info # {} THEN dim_time[SetMin(time_info)].Year
                  ELSE IF date_obj.ok THEN date_obj.year ELSE 0,
         Quarter |-> IF time_info # {} THEN dim_time[SetMin(time_info)].Quarter
                     ELSE IF date_obj.ok THEN QuarterOf(date_obj.month) ELSE "None",
         Month |-> IF time_info # {} THEN dim_time[SetMin(time_info)].Month
                   ELSE IF date_obj.ok THEN MonthNames[date_obj.month] ELSE "None",
         Date_String |-> IF time_info # {} THEN dim_time[SetMin(time_info)].Date_String
                         ELSE IF date_obj.ok
                         THEN DateString(date_obj.year, date_obj.month, date_obj.day)
                         ELSE <<>>,
         Source_Name |-> IF source_info # {} THEN dim_source[SetMin(source_info)].Source_Name
                         ELSE SourceNameOf(article),
         Source_Type |-> IF source_info # {} THEN dim_source[SetMin(source_info)].Source_Type
                         ELSE "Unknown",
         Headline |-> clean_value(article.Headline),
         Document_Count |-> 1,
         Tag_Count |-> 0,
         Has_Key_Event |-> "No"]

\* the row of an article whose Date parses to date_obj, at line 358 and
\* again at line 406
FactRowAt(idx, article, dim_time, dim_source, date_obj) ==
    FactRowOf(idx, article, dim_time, dim_source, date_obj, DateKeyOrSentinel(date_obj),
              FactSourceKey(SourceNameOf(article), dim_source))

FactRow(idx, article, dim_time, dim_source) ==
    FactRowAt(idx, article, dim_time, dim_source, to_datetime(article.Date))

\* StarSchemaBuilder.build_fact_document: with an article to look up, a
\* Dim_Time without rows raises the KeyError at dim_time['Date_Key'] and a
\* Dim_Source without rows at dim_source['Source_Key'], such a DataFrame having
\* no columns
build_fact_document(articles_df, dim_time, dim_source) ==
    IF articles_df # <<>> /\ (dim_time = <<>> \/ dim_source = <<>>)
    THEN [error |-> "KeyError", fact_document |-> <<>>]
    ELSE [error |-> "",
          fact_document |-> [r \in 1..Len(articles_df) |->
                                FactRow(r - 1, articles_df[r], dim_time, dim_source)]]

\* the Bridge_Fact_Tag rows of one fact
TagRowsOf(fact_id, article, dim_tag) ==
    LET known == SelectSeq(article.matched_tags,
                           LAMBDA tag_name : \E k \in 1..Len(dim_tag) : dim_tag[k].Tag_Name = tag_name)
    IN  [i \in 1..Len(known) |->
            [Fact_ID |-> fact_id,
             Tag_Key |-> dim_tag[SetMax({k \in 1..Len(dim_tag) :
                                            dim_tag[k].Tag_Name = known[i]})].Tag_Key,
             Confidence_Score |-> IF ConfidenceIn(article.tag_confidence_scores, known[i]) < 0
                                  THEN 50
                                  ELSE ConfidenceIn(article.tag_confidence_scores, known[i])]]

\* bridge rows that pair the tags of a document with the Fact_ID of the
\* document at the mirrored position
BridgeTagsMirrored(fact_document, articles_df, dim_tag) ==
    Flatten([r \in 1..Len(fact_document) |->
                IF r > Len(articles_df) THEN <<>>
                ELSE TagRowsOf(fact_document[Len(fact_document) + 1 - r].Fact_ID,
                               articles_df[r], dim_tag)])

\* StarSchemaBuilder.build_bridge_fact_tag
build_bridge_fact_tag(fact_document, articles_df, dim_tag) ==
    Flatten([r \in 1..Len(fact_document) |->
                IF r > Len(articles_df) THEN <<>>
                ELSE TagRowsOf(fact_document[r].Fact_ID, articles_df[r], dim_tag)])

\* str.rstrip("'\".,;: ")
RStripPunctuation(s) ==
    LET keep == {i \in 1..Len(s) : s[i] \notin {"'", "\"", ".", ",", ";", ":", " "}}
    IN  IF keep = {} THEN <<>> ELSE SubSeq(s, 1, SetMax(keep))

\* the normalization of build_bridge_fact_entity: lower case, trailing
\* punctuation dropped, and the first suffix of its list that ends the name cut
BridgeNormalize(entity_name) ==
    LET normalized == RStripPunctuation(Strip(StrLower(entity_name)))
        hit == {k \in 1..Len(BridgeSuffixes) : EndsWith(normalized, BridgeSuffixes[k])}
    IN  IF hit = {} THEN normalized
        ELSE Strip(SubSeq(normalized, 1, Len(normalized) - Len(BridgeSuffixes[SetMin(hit)])))

\* words[0] of a name: the core name build_bridge_fact_entity matches on
\* (<<>> when the name has no word)
CoreName(normalized) ==
    IF SplitWords(normalized, 1) = <<>> THEN <<>> ELSE SplitWords(normalized, 1)[1]

\* core_name_to_keys[core_name]: the Dim_Entity rows with that core name, in
\* table order
CoreCandidates(dim_entity, core_name) ==
    SelectSeq(dim_entity,
              LAMBDA row : /\ CoreName(BridgeNormalize(Strip(row.Entity_Name))) # <<>>
                           /\ CoreName(BridgeNormalize(Strip(row.Entity_Name))) = core_name)

\* candidates[0], whatever the lengths of the names
FirstCandidate(candidates) == candidates[1]

\* min(candidates, key=lambda x: len(x[1])): the first of the shortest names
ShortestCandidate(candidates) ==
    candidates[SetMin({k \in 1..Len(candidates) :
                          \A j \in 1..Len(candidates) :
                              Len(Strip(candidates[k].Entity_Name))
                                  <= Len(Strip(candidates[j].Entity_Name))})]

\* the exact match alone: entity_to_key.get(entity_name)
ResolveExact(entity_name, dim_entity) ==
    LET exact == {k \in 1..Len(dim_entity) : dim_entity[k].Entity_Name = entity_name}
    IN  IF exact # {} THEN [tier |-> 1, key |-> dim_entity[SetMax(exact)].Entity_Key]
        ELSE [tier |-> 0, key |-> 0]

\* the three tiers of build_bridge_fact_entity for one entity name: the key and
\* the tier that found it, tier 0 when none did
ResolveEntity(entity_name, dim_entity) ==
    LET exact == {k \in 1..Len(dim_entity) : dim_entity[k].Entity_Name = entity_name}
        normal == {k \in 1..Len(dim_entity) :
                      BridgeNormalize(Strip(dim_entity[k].Entity_Name))
                          = BridgeNormalize(entity_name)}
        words == SplitWords(RStripPunctuation(Strip(StrLower(entity_name))), 1)
        candidates == IF words = <<>> THEN <<>> ELSE CoreCandidates(dim_entity, words[1])
    IN  IF exact # {} THEN [tier |-> 1, key |-> dim_entity[SetMax(exact)].Entity_Key]
        ELSE IF normal # {} THEN [tier |-> 2, key |-> dim_entity[SetMax(normal)].Entity_Key]
        ELSE IF candidates = <<>> THEN [tier |-> 0, key |-> 0]
        ELSE IF Len(candidates) > 1 /\ Len(words) = 1
        THEN [tier |-> 3, key |-> ShortestCandidate(candidates).Entity_Key]
        ELSE [tier |-> 3, key |-> candidates[1].Entity_Key]

\* the mention count a document recorded for an entity name (1 if none)
MentionCountOf(article, entity_name) ==
    LET at == {k \in 1..Len(article.entity_mention_counts) :
                  article.entity_mention_counts[k][1] = entity_name}
    IN  IF at = {} THEN 1 ELSE article.entity_mention_counts[SetMax(at)][2]

\* bridge rows keyed by the place of the entity in its document, the
\* dimension not looked up
EntityRowsByPlace(fact_id, article, dim_entity) ==
    [i \in 1..Len(article.extracted_entities) |->
        [Fact_ID |-> fact_id, Entity_Key |-> 200 + i, Mention_Count |-> 1]]

\* the Bridge_Fact_Entity rows of one fact
EntityRowsOf(fact_id, article, dim_entity) ==
    LET names == SelectSeq([k \in 1..Len(article.extracted_entities) |->
                               Strip(article.extracted_entities[k])],
                           LAMBDA name : name # <<>> /\ ResolveEntity(name, dim_entity).tier > 0)
    IN  [i \in 1..Len(names) |->
            [Fact_ID |-> fact_id,
             Entity_Key |-> ResolveEntity(names[i], dim_entity).key,
             Mention_Count |-> MentionCountOf(article, names[i])]]

\* StarSchemaBuilder.build_bridge_fact_entity, for a Dim_Entity that has rows
build_bridge_fact_entity(fact_document, articles_df, dim_entity) ==
    Flatten([r \in 1..Len(fact_document) |->
                IF r > Len(articles_df) THEN <<>>
                ELSE EntityRowsOf(fact_document[r].Fact_ID, articles_df[r], dim_entity)])

\* the fact rows as build_fact_document left them: Tag_Count 0, Has_Key_Event No
KeepFactCounts(fact_document, bridge_fact_tag) == fact_document

\* StarSchemaBuilder.update_fact_counts, for a Bridge_Fact_Tag that has rows
update_fact_counts(fact_document, bridge_fact_tag) ==
    [r \in 1..Len(fact_document) |->
        LET tag_count == Cardinality({k \in 1..Len(bridge_fact_tag) :
                                         bridge_fact_tag[k].Fact_ID = fact_document[r].Fact_ID})
        IN  [fact_document[r] EXCEPT !.Tag_Count = tag_count,
                                     !.Has_Key_Event = IF tag_count > 0 THEN "Yes" ELSE "No"]]

NoTables ==
    [Fact_Document |-> <<>>, Dim_Time |-> <<>>, Dim_Source |-> <<>>, Dim_Tag |-> <<>>,
     Dim_Entity |-> <<>>, Bridge_Fact_Tag |-> <<>>, Bridge_Fact_Entity |-> <<>>]

\* the end of build_all_tables once the fact table and the bridges are built:
\* the tables, or the KeyError that an empty Dim_Source (build_fact_document),
\* an empty Dim_Entity (build_bridge_fact_entity) or an empty Bridge_Fact_Tag
\* (update_fact_counts) ends in, such a DataFrame having no columns
TablesOf(dim_time, dim_source, dim_tag, dim_entity, fact_document, bridge_fact_tag, bridge_fact_entity) ==
    IF dim_source = <<>> \/ dim_entity = <<>> \/ bridge_fact_tag = <<>>
    THEN [error |-> "KeyError", tables |-> NoTables]
    ELSE [error |-> "",
          tables |-> [Fact_Document |-> update_fact_counts(fact_document, bridge_fact_tag),
                      Dim_Time |-> dim_time,
                      Dim_Source |-> dim_source,
                      Dim_Tag |-> dim_tag,
                      Dim_Entity |-> dim_entity,
                      Bridge_Fact_Tag |-> bridge_fact_tag,
                      Bridge_Fact_Entity |-> bridge_fact_entity]]

\* the bridges of build_all_tables, its dimensions chosen and fact being what
\* build_fact_document returned or raised
FactsAndBridges(articles_df, dim_time, dim_source, dim_tag, dim_entity, fact) ==
    IF fact.error # "" THEN [error |-> fact.error, tables |-> NoTables]
    ELSE TablesOf(dim_time, dim_source, dim_tag, dim_entity, fact.fact_document,
                  build_bridge_fact_tag(fact.fact_document, articles_df, dim_tag),
                  build_bridge_fact_entity(fact.fact_document, articles_df, dim_entity))

BuildOnDimensions(articles_df, dim_time, dim_source, dim_tag, dim_entity) ==
    FactsAndBridges(articles_df, dim_time, dim_source, dim_tag, dim_entity,
                    build_fact_document(articles_df, dim_time, dim_source))

WithCounter(built, counter) ==
    [error |-> built.error, tables |-> built.tables, entity_key_counter |-> counter]

\* build_all_tables from the point where a builder raised: no table is
\* returned and self.entity_key_counter is what it was by then
Raised(error, counter) ==
    [error |-> error, tables |-> NoTables, entity_key_counter |-> counter]

\* build_all_tables once Dim_Time, Dim_Source and Dim_Tag are there, entity
\* being what building Dim_Entity returned or raised and the entity key
\* counter it left
BuildOnEntity(articles_df, dim_time, dim_source, dim_tag, entity) ==
    IF entity.error # "" THEN Raised(entity.error, entity.entity_key_counter)
    ELSE WithCounter(BuildOnDimensions(articles_df, dim_time, dim_source,
                                       dim_tag, entity.dim_entity),
                     entity.entity_key_counter)

\* build_all_tables once Dim_Time and Dim_Source are there, tag being what
\* build_dim_tag returned or raised: Dim_Entity is taken or built after it,
\* so that a KeyError of build_dim_tag leaves self.entity_key_counter alone
BuildOnTag(articles_df, dim_time, dim_source, tag, prebuilt_dim_entity, entity_key_counter) ==
    IF tag.error # "" THEN Raised(tag.error, entity_key_counter)
    ELSE BuildOnEntity(articles_df, dim_time, dim_source, tag.dim_tag,
                       IF prebuilt_dim_entity # <<>>
                       THEN [error |-> "", dim_entity |-> prebuilt_dim_entity,
                             entity_key_counter |-> entity_key_counter]
                       ELSE build_dim_entity(articles_df, entity_key_counter))

\* build_all_tables once Dim_Time is there, source being what building
\* Dim_Source returned or raised: build_dim_tag runs after it
BuildOnSource(articles_df, tag_definitions, dim_time, source, prebuilt_dim_entity, entity_key_counter) ==
    IF source.error # "" THEN Raised(source.error, entity_key_counter)
    ELSE BuildOnTag(articles_df, dim_time, source.dim_source,
                    build_dim_tag(tag_definitions),
                    prebuilt_dim_entity, entity_key_counter)

\* build_all_tables, time being what building Dim_Time returned or raised:
\* build_dim_source runs after it
BuildOnTime(articles_df, tag_definitions, time, prebuilt_dim_source, prebuilt_dim_entity, entity_key_counter) ==
    IF time.error # "" THEN Raised(time.error, entity_key_counter)
    ELSE BuildOnSource(articles_df, tag_definitions, time.dim_time,
                       IF prebuilt_dim_source # <<>>
                       THEN [error |-> "", dim_source |-> prebuilt_dim_source]
                       ELSE build_dim_source(articles_df),
                       prebuilt_dim_entity, entity_key_counter)

\* StarSchemaBuilder.build_all_tables: Dim_Time, Dim_Source, Dim_Tag and
\* Dim_Entity are taken or built in this order, then the fact table and the
\* bridges; the first builder that raises ends the call.  A frame is the
\* sequence of its rows, so that one without rows stands for pd.DataFrame([]):
\* a frame that keeps its columns and has no row ends the call in the same
\* KeyError, raised by the drop_duplicates of build_dim_time
build_all_tables(articles_df, tag_definitions, prebuilt_dim_time, prebuilt_dim_source, prebuilt_dim_entity, entity_key_counter) ==
    BuildOnTime(articles_df, tag_definitions,
                IF prebuilt_dim_time # <<>>
                THEN [error |-> "", dim_time |-> prebuilt_dim_time]
                ELSE build_dim_time(articles_df),
                prebuilt_dim_source, prebuilt_dim_entity, entity_key_counter)

\* the files save_tables_to_csv writes, in the order of the tables dict
TableNames ==
    << "Fact_Document", "Dim_Time", "Dim_Source", "Dim_Tag", "Dim_Entity",
       "Bridge_Fact_Tag", "Bridge_Fact_Entity" >>


(***************************************************************************)
(* Specification SpecExtract: steps A (normalize), B (match tags) and C    *)
(* (extract entities) on one article, as _process_batch runs them.         *)
(***************************************************************************)
\* a taxonomy as ExcelTagLoader hands it to TagMatcher
ExtractTaxonomy ==
    <<[Tag_Name |-> <<"D", "e", "a", "l">>, Keywords |-> <<<<"b", "u", "y">>, <<"b", "i", "d">>, <<"m", "e", "r", "g", "e", "r">>, <<"a", "c", "q", "u", "i", "r", "e">>>>, Tag_Category |-> "Event", Tag_Domain |-> "Business"],
       [Tag_Name |-> <<"O", "n", "c", "o", "l", "o", "g", "y">>, Keywords |-> <<<<"t", "u", "m", "o", "r">>, <<"c", "a", "n", "c", "e", "r">>, <<"t", "h", "e", "r", "a", "p", "y">>, <<"d", "r", "u", "g">>>>, Tag_Category |-> "Therapy", Tag_Domain |-> "Healthcare"],
       [Tag_Name |-> <<"L", "a", "b", "e", "l">>, Keywords |-> <<<<"l", "a", "b", "e", "l">>>>, Tag_Category |-> "Regulatory", Tag_Domain |-> "Healthcare"]>>

\* the company file: absent, unreadable, of two names, without the column
\* Company_Name, and without the column Entity_Type
ExtractCompanyFiles ==
    { MissingFile,
      BrokenFile,
      CompanyFile(<<[Company_Name |-> <<"T", "e", "v", "a", " ", "I", "n", "c">>, Entity_Type |-> <<"C", "o", "m", "p", "a", "n", "y">>],
                    [Company_Name |-> <<"A", "c", "m", "e">>, Entity_Type |-> <<" ", "O", "r", "g", "a", "n", "i", "z", "a", "t", "i", "o", "n", " ">>]>>),
      CompanyFile(<<[Name |-> <<"T", "e", "v", "a", " ", "I", "n", "c">>, Entity_Type |-> <<"C", "o", "m", "p", "a", "n", "y">>]>>),
      CompanyFile(<<[Company_Name |-> <<"N", "/", "A">>], [Company_Name |-> <<" ", "A", "c", "m", "e">>]>>) }

ExtractHints ==
    {<<>>,
      <<"T", "e", "v", "a">>,
      <<"T", "e", "v", "a", ";", " ", "T", "e", "v", "a", " ", "I", "n", "c">>,
      <<"A", "c", "m", "e", " ", "C", "o", "r", "p", ",", " ", "D", "e", "a", "l">>,
      <<"O", "n", "c", "o", "l", "o", "g", "y", "|", "n", "a", "n">>,
      <<"D", "e", "a", "l", ";", " ", "O", "n", "c", "o", "l", "o", "g", "y">>}

ExtractHeadlines ==
    {<<>>,
      <<"T", "e", "v", "a", " ", "t", "o", " ", "b", "u", "y", " ", "A", "c", "m", "e">>,
      <<"T", "e", "v", "a", " ", "I", "n", "c", " ", "w", "i", "n", "s", " ", "l", "a", "b", "e", "l">>}

ExtractBodies ==
    {<<>>,
      <<"T", "e", "v", "a", " ", "w", "i", "l", "l", " ", "b", "u", "y", " ", "o", "r", " ", "b", "i", "d", " ", "i", "n", " ", "m", "e", "r", "g", "e", "r", " ", "t", "o", " ", "a", "c", "q", "u", "i", "r", "e", " ", "A", "c", "m", "e", " ", "C", "o", "r", "p", " ", "t", "h", "i", "s", " ", "w", "e", "e", "k", " ", "s", "a", "y", "s", " ", "f", "i", "r", "m">>,
      <<"N", "e", "w", " ", "t", "u", "m", "o", "r", " ", "d", "r", "u", "g", " ", "f", "r", "o", "m", " ", "T", "e", "v", "a", " ", "I", "n", "c", " ", "s", "h", "o", "w", "s", " ", "c", "a", "n", "c", "e", "r", " ", "t", "h", "e", "r", "a", "p", "y", " ", "g", "a", "i", "n", "s", " ", "i", "n", " ", "l", "a", "t", "e", " ", "t", "r", "i", "a", "l", " ", "d", "a", "t", "a">>}


(***************************************************************************)
(* Specification Spec: process_csv_to_star_schema on a CSV file, and once  *)
(* more on the same file with another batch size.                          *)
(***************************************************************************)
MaxRows == 3
MaxBatch == 2

\* the tag definitions ExcelTagLoader.extract_tag_definitions returns
PipelineTaxonomy ==
    <<[Tag_Name |-> <<"D", "e", "a", "l">>, Keywords |-> <<<<"b", "u", "y">>, <<"b", "i", "d">>, <<"m", "e", "r", "g", "e", "r">>>>, Tag_Category |-> "Event", Tag_Domain |-> "Business"],
       [Tag_Name |-> <<"O", "n", "c", "o", "l", "o", "g", "y">>, Keywords |-> <<<<"t", "u", "m", "o", "r">>, <<"c", "a", "n", "c", "e", "r">>>>, Tag_Category |-> "Therapy", Tag_Domain |-> "Healthcare"]>>

\* BatchProcessor builds EntityExtractor() on config/company_names.csv, which
\* the source tree does not hold: the registry is empty
PipelineCompanies == MissingFile

\* the header rows of the input: the columns of the article export, and the
\* same without the Source column
Headers ==
    { <<"Date", "Source", "Headline", "Body/abstract/extract", "matched_keywords">>,
      <<"Date", "Headline", "Body/abstract/extract", "matched_keywords">> }

\* the data rows of the input, as csv.reader yields them: four rows of five
\* fields and a row cut short to four
Lines ==
    { <<<<"2", "0", "2", "4", "-", "0", "1", "-", "1", "5">>, <<"S", "t", "a", "t", " ", "N", "e", "w", "s">>, <<"T", "e", "v", "a", " ", "t", "o", " ", "b", "u", "y", " ", "A", "c", "m", "e">>, <<>>, <<"T", "e", "v", "a">>>>,
      <<<<"2", "0", "2", "4", "-", "0", "3", "-", "0", "5">>, <<" ", "S", "t", "a", "t", " ", "N", "e", "w", "s", " ">>, <<"T", "e", "v", "a", " ", "I", "n", "c", " ", "u", "p", "d", "a", "t", "e">>, <<>>, <<"T", "e", "v", "a", " ", "I", "n", "c">>>>,
      <<<<"n", "o", "t", "-", "a", "-", "d", "a", "t", "e">>, <<"1", "2", "3", "4", "5">>, <<"T", "u", "m", "o", "r", " ", "d", "r", "u", "g", " ", "m", "e", "r", "g", "e", "r">>, <<>>, <<"O", "n", "c", "o", "l", "o", "g", "y">>>>,
      <<<<>>, <<"F", "D", "A", ".", "g", "o", "v">>, <<"M", "e", "r", "g", "e", "r", " ", "t", "a", "l", "k">>, <<>>, <<"A", "c", "m", "e", " ", "C", "o", "r", "p", ";", " ", "D", "e", "a", "l">>>>,
      <<<<"2", "0", "2", "4", "-", "0", "1", "-", "1", "5">>, <<"S", "t", "a", "t", " ", "N", "e", "w", "s">>, <<"T", "e", "v", "a", " ", "t", "o", " ", "b", "u", "y", " ", "A", "c", "m", "e">>, <<>>>> }

CsvInputs == UNION {[1..n -> Lines] : n \in 0..MaxRows}

\* the batch sizes of a run: BatchProcessor takes any integer, and one below 1
\* behaves as 0 does, batch_size being compared with the length of the chunk
\* only
BatchSizes == 0..MaxBatch


(***************************************************************************)
(* State.  nm_*: a name under _normalize_entity_name.  ex_*: one article   *)
(* under steps A, B and C.  The others are the input of a run, the fields  *)
(* of its BatchProcessor, the locals of process_csv_to_star_schema, the    *)
(* files of the output directory, and what the run before returned.        *)
(* src_*: the Source values of a file on their way into Dim_Source.        *)
(* br_*: a Dim_Entity and documents under build_bridge_fact_entity.        *)
(***************************************************************************)
VARIABLES nm_pc, nm_pieces, nm_norm, nm_again, nm_kind, nm_variant, nm_vnorm
VARIABLES ex_pc, ex_taxonomy, ex_companies, ex_article, ex_text, ex_matches, ex_entities,
          ex_rejected
VARIABLES csv_header, csv_rows, batch_size
VARIABLES pc, error, pos, current_chunk_rows, chunk_df, total_rows, batch_count
VARIABLES processed_batches, dim_time_accumulator, dim_source_accumulator,
          dim_entity_accumulator, rejected_entities_accumulator, entity_key_counter
VARIABLES finalizations, all_tables, written, rejected_saved
VARIABLES run, first_batch_size, first_tables
VARIABLES src_pc, src_values, src_batch, src_pos, src_accumulator, src_dim
VARIABLES br_pc, br_dim_entity, br_articles, br_fact_document, br_bridge, br_tiers

normVars == <<nm_pc, nm_pieces, nm_norm, nm_again, nm_kind, nm_variant, nm_vnorm>>
extractVars == <<ex_pc, ex_taxonomy, ex_companies, ex_article, ex_text, ex_matches, ex_entities,
                 ex_rejected>>
inputVars == <<csv_header, csv_rows>>
accumulators == <<processed_batches, dim_time_accumulator, dim_source_accumulator,
                  dim_entity_accumulator, rejected_entities_accumulator>>
scanVars == <<pos, current_chunk_rows, chunk_df, total_rows, batch_count>>
outputVars == <<all_tables, written, rejected_saved>>
runVars == <<run, first_batch_size, first_tables>>
pipelineVars == <<inputVars, batch_size, pc, error, scanVars, accumulators,
                  entity_key_counter, finalizations, outputVars, runVars>>
sourceVars == <<src_pc, src_values, src_batch, src_pos, src_accumulator, src_dim>>
bridgeVars == <<br_pc, br_dim_entity, br_articles, br_fact_document, br_bridge, br_tiers>>
vars == <<hash_seed, normVars, extractVars, pipelineVars, sourceVars, bridgeVars>>

\* the values the variables of a group keep under the specifications that do
\* not use the group
NormIdle ==
    /\ nm_pc = "idle"
    /\ nm_pieces = <<>>
    /\ nm_norm = <<>>
    /\ nm_again = <<>>
    /\ nm_kind = "none"
    /\ nm_variant = <<>>
    /\ nm_vnorm = <<>>

NoArticle ==
    [columns |-> {"Date", "Source", "Headline", "Body/abstract/extract", "Consolidated_Text",
                  "matched_keywords"},
     Date |-> <<>>, Source |-> <<>>, Headline |-> <<>>, Body |-> <<>>,
     Consolidated_Text |-> <<>>, matched_keywords |-> <<>>]

ExtractIdle ==
    /\ ex_pc = "idle"
    /\ ex_taxonomy = <<>>
    /\ ex_companies = MissingFile
    /\ ex_article = NoArticle
    /\ ex_text = <<>>
    /\ ex_matches = <<>>
    /\ ex_entities = <<>>
    /\ ex_rejected = <<>>

\* BatchProcessor.__init__ and the locals of process_csv_to_star_schema
FreshProcessor ==
    /\ error = ""
    /\ pos = 0
    /\ current_chunk_rows = <<>>
    /\ chunk_df = <<>>
    /\ total_rows = 0
    /\ batch_count = 0
    /\ processed_batches = <<>>
    /\ dim_time_accumulator = {}
    /\ dim_source_accumulator = {}
    /\ dim_entity_accumulator = {}
    /\ rejected_entities_accumulator = <<>>
    /\ entity_key_counter = 200
    /\ finalizations = 0
    /\ all_tables = NoTables
    /\ written = <<>>
    /\ rejected_saved = FALSE

PipelineIdle ==
    /\ csv_header = <<>>
    /\ csv_rows = <<>>
    /\ batch_size = 1
    /\ pc = "idle"
    /\ FreshProcessor
    /\ run = 0
    /\ first_batch_size = 0
    /\ first_tables = NoTables

SourceIdle ==
    /\ src_pc = "idle"
    /\ src_values = <<>>
    /\ src_batch = 1
    /\ src_pos = 0
    /\ src_accumulator = {}
    /\ src_dim = <<>>

BridgeIdle ==
    /\ br_pc = "idle"
    /\ br_dim_entity = <<>>
    /\ br_articles = <<>>
    /\ br_fact_document = <<>>
    /\ br_bridge = <<>>
    /\ br_tiers = <<>>

(***************************************************************************)
(* Specification SpecNorm: _normalize_entity_name on drawn names.          *)
(***************************************************************************)
NormInit ==
    /\ nm_pc = "start"
    /\ nm_pieces \in PieceSeqs \cup NormScenarios
    /\ hash_seed \in SuffixSeeds(NormContended(nm_pieces))
    /\ nm_norm = <<>>
    /\ nm_again = <<>>
    /\ nm_kind = "none"
    /\ nm_variant = <<>>
    /\ nm_vnorm = <<>>
    /\ ExtractIdle
    /\ PipelineIdle
    /\ SourceIdle
    /\ BridgeIdle

\* normalized = self._normalize_entity_name(name)
NormalizeName ==
    /\ nm_pc = "start"
    /\ nm_norm' = normalize_entity_name(Flatten(nm_pieces))
    /\ nm_pc' = "normalized"
    /\ UNCHANGED <<nm_pieces, nm_again, nm_kind, nm_variant, nm_vnorm>>
    /\ UNCHANGED <<hash_seed, extractVars, pipelineVars, sourceVars, bridgeVars>>

\* the normalized form is normalized once more
NormalizeAgain ==
    /\ nm_pc = "normalized"
    /\ nm_again' = normalize_entity_name(nm_norm)
    /\ nm_pc' = "twice"
    /\ UNCHANGED <<nm_pieces, nm_norm, nm_kind, nm_variant, nm_vnorm>>
    /\ UNCHANGED <<hash_seed, extractVars, pipelineVars, sourceVars, bridgeVars>>

Compare(kind, variant) ==
    /\ nm_kind' = kind
    /\ nm_variant' = variant
    /\ nm_vnorm' = normalize_entity_name(variant)
    /\ nm_pc' = "compared"
    /\ UNCHANGED <<nm_pieces, nm_norm, nm_again>>
    /\ UNCHANGED <<hash_seed, extractVars, pipelineVars, sourceVars, bridgeVars>>

\* the same name in another letter case
VariantCase ==
    /\ nm_pc = "normalized"
    /\ \E v \in {StrUpper(Flatten(nm_pieces)), StrLower(Flatten(nm_pieces))} :
          /\ v # Flatten(nm_pieces)
          /\ Compare("case", v)

\* the same name, ending in a word, followed by a corporate suffix
VariantSuffix ==
    /\ nm_pc = "normalized"
    /\ nm_pieces # <<>>
    /\ IsNameWord(nm_pieces[Len(nm_pieces)])
    /\ \E suffix \in VariantSuffixes :
          Compare("suffix", Flatten(nm_pieces) \o <<" ">> \o suffix)

\* the same name with a separator put between two plain words, or with the
\* space between two plain words replaced by a hyphen
VariantSeparator ==
    /\ nm_pc = "normalized"
    /\ \/ \E k \in 1..(Len(nm_pieces) - 1), sep \in VariantSeparators :
             /\ IsPlainWord(nm_pieces[k]) /\ IsPlainWord(nm_pieces[k + 1])
             /\ Compare("separator", Flatten(InsertPiece(nm_pieces, k, sep)))
       \/ \E k \in 2..(Len(nm_pieces) - 1) :
             /\ nm_pieces[k] = <<" ">>
             /\ IsPlainWord(nm_pieces[k - 1]) /\ IsPlainWord(nm_pieces[k + 1])
             /\ Compare("separator", Flatten(ReplacePiece(nm_pieces, k, <<"-">>)))

\* the same name with '&' written 'and' between two words
VariantAmpersand ==
    /\ nm_pc = "normalized"
    /\ \E k \in 2..(Len(nm_pieces) - 1) :
          /\ nm_pieces[k] = <<"&">>
          /\ IsAlnum(nm_pieces[k - 1][1]) /\ IsAlnum(nm_pieces[k + 1][1])
          /\ Compare("ampersand", Flatten(ReplacePiece(nm_pieces, k, <<" ", "a", "n", "d", " ">>)))

NormNext ==
    \/ NormalizeName
    \/ NormalizeAgain
    \/ VariantCase
    \/ VariantSuffix
    \/ VariantSeparator
    \/ VariantAmpersand
\* the taxonomy of one tag whose keywords do not hold the tag's own name
AcquisitionTaxonomy ==
    <<[Tag_Name |-> <<"a", "c", "q", "u", "i", "s", "i", "t", "i", "o", "n">>, Keywords |-> <<<<"a", "c", "q", "u", "i", "r", "e">>, <<"a", "c", "q", "u", "i", "r", "e", "d">>, <<"b", "u", "y">>>>, Tag_Category |-> "Event", Tag_Domain |-> "Business"]>>

\* a document without hints whose text says "Pfizer announced acquisition of"
\* twice
AcquisitionArticle ==
    [NoArticle EXCEPT
        !.Headline = <<"P", "f", "i", "z", "e", "r", " ", "a", "n", "n", "o", "u", "n", "c", "e", "d", " ", "a", "c", "q", "u", "i", "s", "i", "t", "i", "o", "n", " ", "o", "f", " ", "b", "i", "o", "t", "e", "c", "h">>,
        !.Body = <<"P", "f", "i", "z", "e", "r", " ", "a", "n", "n", "o", "u", "n", "c", "e", "d", " ", "a", "c", "q", "u", "i", "s", "i", "t", "i", "o", "n", " ", "o", "f", " ", "r", "i", "v", "a", "l">>]

\* the document of the extractor's sample run (main): three hints, and a text
\* that names "Pfizer Inc." twice
PfizerArticle ==
    [NoArticle EXCEPT
        !.matched_keywords = <<"P", "f", "i", "z", "e", "r", ";", " ", "E", "l", "i", " ", "L", "i", "l", "l", "y", ";", " ", "O", "n", "c", "o", "l", "o", "g", "y">>,
        !.Headline = <<"P", "f", "i", "z", "e", "r", " ", "I", "n", "c", ".", " ", "e", "x", "p", "a", "n", "d", "s">>,
        !.Body = <<"S", "h", "a", "r", "e", "s", " ", "o", "f", " ", "P", "f", "i", "z", "e", "r", " ", "I", "n", "c", ".", " ", "r", "o", "s", "e">>]

\* documents run without a company registry, next to the pools above
ExtractScenarios ==
    { [taxonomy |-> ExtractTaxonomy, article |-> PfizerArticle],
      [taxonomy |-> AcquisitionTaxonomy, article |-> AcquisitionArticle] }


(***************************************************************************)
(* Specification SpecBridge: build_bridge_fact_entity on a Dim_Entity and  *)
(* documents of one or two extracted entities.                             *)
(***************************************************************************)
MaxDocs == 2

\* the names a Dim_Entity is drawn from
DimEntityNames ==
    {<<"R", "e", "a", "t", "a", " ", "P", "h", "a", "r", "m", "a", "c", "e", "u", "t", "i", "c", "a", "l", "s">>,
      <<"R", "e", "a", "t", "a", " ", "B", "i", "o">>,
      <<"R", "e", "a", "t", "a", " ", "A", "l", "l", "i", "a", "n", "c", "e">>,
      <<"A", "s", "t", "r", "a", "Z", "e", "n", "e", "c", "a">>,
      <<"T", "e", "v", "a">>}

\* the names the documents are drawn from
DocumentEntityNames ==
    {<<"R", "e", "a", "t", "a">>,
      <<"R", "e", "a", "t", "a", " ", "P", "h", "a", "r", "m", "a", "c", "e", "u", "t", "i", "c", "a", "l", "s">>,
      <<"R", "e", "a", "t", "a", " ", "L", "a", "b", "s">>,
      <<"A", "s", "t", "r", "a", " ", "Z", "e", "n", "e", "c", "a">>,
      <<"T", "e", "v", "a", " ", "I", "n", "c", ".">>}

\* a Dim_Entity as _build_dim_entity_from_accumulator makes it of names
DimEntityOfNames(names) ==
    build_dim_entity_from_accumulator({<<name, CompanyType, "Healthcare">> : name \in names})

\* the documents of two entities: their names have different normalized forms
\* under _normalize_entity_name, as the entities of one document have
DocumentEntityPairs ==
    {<<<<"R", "e", "a", "t", "a", " ", "A", "l", "l", "i", "a", "n", "c", "e">>, <<"R", "e", "a", "t", "a", " ", "L", "a", "b", "s">>>>,
     <<<<"R", "e", "a", "t", "a", " ", "A", "l", "l", "i", "a", "n", "c", "e">>, <<"T", "e", "v", "a", " ", "I", "n", "c", ".">>>>}

\* the extracted_entities of a document
DocumentEntities == {<<name>> : name \in DocumentEntityNames} \cup DocumentEntityPairs

\* a row of articles_df with its extracted entities, and its Fact_Document row
BridgeArticle(entities) == [extracted_entities |-> entities, entity_mention_counts |-> <<>>]
BridgeFact(idx) == [Fact_ID |-> 1000 + idx]

BridgeInit ==
    /\ br_pc = "start"
    /\ \E names \in (SUBSET DimEntityNames) \ {{}} : br_dim_entity = DimEntityOfNames(names)
    /\ \E n \in 1..MaxDocs :
          \E names \in [1..n -> DocumentEntities] :
              /\ br_articles = [r \in 1..n |-> BridgeArticle(names[r])]
              /\ br_fact_document = [r \in 1..n |-> BridgeFact(r - 1)]
    /\ hash_seed \in SuffixSeeds(ContendedIn(DimEntityNames \cup DocumentEntityNames))
    /\ br_bridge = <<>>
    /\ br_tiers = <<>>
    /\ NormIdle
    /\ ExtractIdle
    /\ PipelineIdle
    /\ SourceIdle

\* the tier that resolves each entity of each document: 1 exact, 2 normalized,
\* 3 core name, 0 none
TiersOf(articles_df, dim_entity) ==
    [r \in 1..Len(articles_df) |->
        [k \in 1..Len(articles_df[r].extracted_entities) |->
            ResolveEntity(Strip(articles_df[r].extracted_entities[k]), dim_entity).tier]]

\* bridge_fact_entity = self.build_bridge_fact_entity(fact_document, articles_df,
\* dim_entity)
BuildBridge ==
    /\ br_pc = "start"
    /\ br_bridge' = build_bridge_fact_entity(br_fact_document, br_articles, br_dim_entity)
    /\ br_tiers' = TiersOf(br_articles, br_dim_entity)
    /\ br_pc' = "built"
    /\ UNCHANGED <<br_dim_entity, br_articles, br_fact_document>>
    /\ UNCHANGED <<hash_seed, normVars, extractVars, pipelineVars, sourceVars>>

BridgeNext == BuildBridge

ExtractInit ==
    /\ ex_pc = "start"
    /\ \/ /\ ex_taxonomy = ExtractTaxonomy
          /\ ex_companies \in ExtractCompanyFiles
          /\ \E hint \in ExtractHints, headline \in ExtractHeadlines, body \in ExtractBodies :
                ex_article = [NoArticle EXCEPT !.Headline = headline, !.Body = body,
                                               !.matched_keywords = hint]
       \/ /\ ex_companies = MissingFile
          /\ \E scenario \in ExtractScenarios :
                /\ ex_taxonomy = scenario.taxonomy
                /\ ex_article = scenario.article
    /\ hash_seed \in ArticleSeeds(ex_taxonomy, ex_companies, ex_article)
    /\ ex_text = <<>>
    /\ ex_matches = <<>>
    /\ ex_entities = <<>>
    /\ ex_rejected = <<>>
    /\ NormIdle
    /\ PipelineIdle
    /\ SourceIdle
    /\ BridgeIdle

\* step A: normalized_df = self.text_normalizer.batch_normalize_articles(batch_df)
NormalizeArticle ==
    /\ ex_pc = "start"
    /\ ex_text' = normalize_article_text(ex_article).combined_normalized
    /\ ex_pc' = "normalized"
    /\ UNCHANGED <<ex_taxonomy, ex_companies, ex_article, ex_matches, ex_entities, ex_rejected>>
    /\ UNCHANGED <<hash_seed, normVars, pipelineVars, sourceVars, bridgeVars>>

\* step B: tag_matches = self.match_article_to_tags(article, normalized_texts)
MatchArticle ==
    /\ ex_pc = "normalized"
    /\ ex_matches' = match_article_to_tags(ex_taxonomy, ex_article, ex_text, hash_seed)
    /\ ex_pc' = "matched"
    /\ UNCHANGED <<ex_taxonomy, ex_companies, ex_article, ex_text, ex_entities, ex_rejected>>
    /\ UNCHANGED <<hash_seed, normVars, pipelineVars, sourceVars, bridgeVars>>

\* step C: entities = self.extract_entities_from_article(article, combined_text,
\* rejected_entities_list)
ExtractArticle ==
    /\ ex_pc = "matched"
    /\ ex_entities' = extract_entities_from_article(ex_article, ex_text,
                                                    load_company_names(ex_companies))
    /\ ex_rejected' = RejectedOf(ex_article, load_company_names(ex_companies))
    /\ ex_pc' = "extracted"
    /\ UNCHANGED <<ex_taxonomy, ex_companies, ex_article, ex_text, ex_matches>>
    /\ UNCHANGED <<hash_seed, normVars, pipelineVars, sourceVars, bridgeVars>>

ExtractNext ==
    \/ NormalizeArticle
    \/ MatchArticle
    \/ ExtractArticle

(***************************************************************************)
(* BatchProcessor.process_csv_to_star_schema, step by step.                *)
(***************************************************************************)
\* len(row) == len(header)
WellFormed(header, row) == Len(row) = Len(header)

WellFormedRows(header, rows) == SelectSeq(rows, LAMBDA row : WellFormed(header, row))

\* the orders of the suffixes the rows of the model can tell apart
PipelineSuffixOrders ==
    Perms(UNION {UNION {ContendedIn(NameTexts(PipelineCompanies.rows, ArticleOf(header, row))) :
                           row \in {line \in Lines : WellFormed(header, line)}} :
                    header \in Headers})

\* what steps A, B and C make of every well-formed row of the model under
\* every header of the model, every order of the suffixes and every order of
\* the sets steps B and C iterate, computed once
ProcessedRows ==
    [header \in Headers |->
        [row \in {line \in Lines : WellFormed(header, line)} |->
            [first \in PipelineSuffixOrders |->
                ProcessArticleOrders(PipelineTaxonomy,
                                     InitCompanies(PipelineCompanies, SuffixSeed(first)),
                                     ArticleOf(header, row))]]]

\* tagged_df of _process_batch for a chunk of well-formed rows whose sets the
\* process has iterated
TaggedBatch(header, chunk) ==
    [r \in 1..Len(chunk) |->
        RowUnder(ProcessedRows[header][chunk[r]][hash_seed.suffixes], hash_seed)]

\* an accumulator that holds what the last batch found only
AccumulateLast(accumulator, found) == found

\* set.add of every element of found
Accumulate(accumulator, found) == accumulator \cup found

\* the last processed batch in place of all of them
LastBatch(batches) == batches[Len(batches)]

\* the batches combined with the latest batch first
ConcatNewestFirst(batches) ==
    Flatten([b \in 1..Len(batches) |-> batches[Len(batches) + 1 - b]])

\* pd.concat(self.processed_batches, ignore_index=True)
ConcatBatches(batches) == Flatten(batches)

\* a reader that can stop after any row
InputStarted(consumed, rows) == consumed >= 1 \/ rows = <<>>

\* the reader has no row left
InputExhausted(consumed, rows) == consumed = Len(rows)

\* self._process_batch(chunk_df): _accumulate_dimensions raises KeyError at
\* chunk['Date'] or, the dates accumulated, at chunk['Source']; the rejected
\* entities and the processed batch are appended after it
AccumulateBatch(chunk, has_date, ok, batch, batch_rejected_entities) ==
    /\ dim_time_accumulator' =
           IF has_date
           THEN Accumulate(dim_time_accumulator,
                           TimeTuples([r \in 1..Len(chunk) |->
                                          ColumnOf(csv_header, chunk[r], "Date")]))
           ELSE dim_time_accumulator
    /\ dim_source_accumulator' =
           IF ok
           THEN Accumulate(dim_source_accumulator,
                           SourceTuples([r \in 1..Len(chunk) |->
                                            ColumnOf(csv_header, chunk[r], "Source")]))
           ELSE dim_source_accumulator
    /\ dim_entity_accumulator' =
           IF ok THEN Accumulate(dim_entity_accumulator, EntityTuples(BatchDimEntity(batch)))
           ELSE dim_entity_accumulator
    /\ rejected_entities_accumulator' =
           IF ok /\ batch_rejected_entities # <<>>
           THEN Append(rejected_entities_accumulator, batch_rejected_entities)
           ELSE rejected_entities_accumulator
    /\ processed_batches' = IF ok THEN Append(processed_batches, batch) ELSE processed_batches
    /\ error' = IF ok THEN "" ELSE "KeyError"

RejectedThenStored(chunk, has_date, ok, batch) ==
    AccumulateBatch(chunk, has_date, ok, batch, BatchRejected(batch))

\* BatchProcessor._process_batch on a chunk, rows[r] being what steps A, B and
\* C make of its r-th row under every order of the sets they iterate: the
\* sets the process had not iterated before get their order
ProcessBatch(chunk, rows) ==
    \E seed \in SeedsAfter(rows, 1, hash_seed) :
        /\ hash_seed' = seed
        /\ RejectedThenStored(chunk, HasColumn(csv_header, "Date"),
                              HasColumn(csv_header, "Date") /\ HasColumn(csv_header, "Source"),
                              [r \in 1..Len(chunk) |-> RowUnder(rows[r], seed)])

PipelineInit ==
    /\ csv_header \in Headers
    /\ csv_rows \in CsvInputs
    /\ hash_seed \in {SuffixSeed(first) : first \in PipelineSuffixOrders}
    /\ batch_size \in BatchSizes
    /\ pc = "start"
    /\ FreshProcessor
    /\ run = 1
    /\ first_batch_size = 0
    /\ first_tables = NoTables
    /\ NormIdle
    /\ ExtractIdle
    /\ SourceIdle
    /\ BridgeIdle

\* steps 1 and 2 up to the reader: the tag definitions are loaded and the CSV
\* file is opened
LoadTagDefinitions ==
    /\ pc = "start"
    /\ pc' = "scanning"
    /\ UNCHANGED <<inputVars, batch_size, error, scanVars, accumulators,
                   entity_key_counter, finalizations, outputVars, runVars>>
    /\ UNCHANGED <<hash_seed, normVars, extractVars, sourceVars, bridgeVars>>

\* the Excel file cannot be loaded or the CSV file does not exist
LoadFails ==
    /\ pc = "start"
    /\ pc' = "failed"
    /\ error' = "FileNotFoundError"
    /\ UNCHANGED <<inputVars, batch_size, scanVars, accumulators,
                   entity_key_counter, finalizations, outputVars, runVars>>
    /\ UNCHANGED <<hash_seed, normVars, extractVars, sourceVars, bridgeVars>>

\* one turn of 'for row in reader' up to the call of _process_batch: a
\* well-formed row joins the chunk, and a chunk of batch_size rows becomes
\* chunk_df
ReadRow ==
    /\ pc = "scanning"
    /\ ~InputExhausted(pos, csv_rows)
    /\ LET row == csv_rows[pos + 1]
           chunk == IF WellFormed(csv_header, row) THEN Append(current_chunk_rows, row)
                    ELSE current_chunk_rows
       IN  /\ pos' = pos + 1
           /\ IF Len(chunk) >= batch_size
              THEN /\ batch_count' = batch_count + 1
                   /\ chunk_df' = chunk
                   /\ total_rows' = total_rows + Len(chunk)
                   /\ current_chunk_rows' = <<>>
                   /\ pc' = "batch"
              ELSE /\ current_chunk_rows' = chunk
                   /\ UNCHANGED <<batch_count, total_rows, chunk_df, pc>>
    /\ UNCHANGED <<inputVars, batch_size, error, accumulators, entity_key_counter,
                   finalizations, outputVars, runVars>>
    /\ UNCHANGED <<hash_seed, normVars, extractVars, sourceVars, bridgeVars>>

\* the reader is exhausted: the remaining rows, if any, are the final chunk
EndOfInput ==
    /\ pc = "scanning"
    /\ InputExhausted(pos, csv_rows)
    /\ IF current_chunk_rows # <<>>
       THEN /\ batch_count' = batch_count + 1
            /\ chunk_df' = current_chunk_rows
            /\ total_rows' = total_rows + Len(current_chunk_rows)
            /\ pc' = "final batch"
       ELSE /\ pc' = "finalizing"
            /\ UNCHANGED <<batch_count, total_rows, chunk_df>>
    /\ UNCHANGED <<inputVars, batch_size, error, pos, current_chunk_rows, accumulators,
                   entity_key_counter, finalizations, outputVars, runVars>>
    /\ UNCHANGED <<hash_seed, normVars, extractVars, sourceVars, bridgeVars>>

\* self._process_batch(chunk_df), called in the loop or for the final chunk;
\* an exception it raises ends the run
ProcessChunk ==
    /\ pc \in {"batch", "final batch"}
    /\ ProcessBatch(chunk_df,
                    [r \in 1..Len(chunk_df) |->
                        ProcessedRows[csv_header][chunk_df[r]][hash_seed.suffixes]])
    /\ pc' = IF error' # "" THEN "failed"
             ELSE IF pc = "batch" THEN "scanning" ELSE "finalizing"
    /\ UNCHANGED <<inputVars, batch_size, scanVars, entity_key_counter, finalizations,
                   outputVars, runVars>>
    /\ UNCHANGED <<normVars, extractVars, sourceVars, bridgeVars>>

\* what build_all_tables returns and leaves in the builder becomes the state
StoreTables(built) ==
    /\ entity_key_counter' = built.entity_key_counter
    /\ error' = built.error
    /\ all_tables' = built.tables
    /\ pc' = IF built.error = "" THEN "saving" ELSE "failed"

\* build_all_tables on the combined batches and the dimensions built from the
\* accumulators; a Dim_Entity with rows moves the entity key counter past its
\* keys
BuildTables(dim_entity_df) ==
    StoreTables(build_all_tables(ConcatBatches(processed_batches), PipelineTaxonomy,
                                 build_dim_time_from_accumulator(dim_time_accumulator),
                                 build_dim_source_from_accumulator(dim_source_accumulator),
                                 dim_entity_df,
                                 IF Len(dim_entity_df) > 0 THEN 200 + Len(dim_entity_df)
                                 ELSE entity_key_counter))

\* step 3: the batches are combined, the dimensions built from the
\* accumulators and build_all_tables called
Finalize ==
    /\ pc = "finalizing"
    /\ processed_batches # <<>>
    /\ BuildTables(build_dim_entity_from_accumulator(dim_entity_accumulator))
    /\ finalizations' = finalizations + 1
    /\ UNCHANGED <<inputVars, batch_size, scanVars, accumulators, written, rejected_saved, runVars>>
    /\ UNCHANGED <<hash_seed, normVars, extractVars, sourceVars, bridgeVars>>

\* step 3 going on to save tables without rows, no batch processed
EmitEmptyTables ==
    /\ pc = "finalizing"
    /\ processed_batches = <<>>
    /\ all_tables' = NoTables
    /\ pc' = "saving"
    /\ UNCHANGED <<inputVars, batch_size, error, scanVars, accumulators, entity_key_counter,
                   finalizations, written, rejected_saved, runVars>>
    /\ UNCHANGED <<hash_seed, normVars, extractVars, sourceVars, bridgeVars>>

\* raise ValueError("No processed batches found")
NoBatches ==
    /\ pc = "finalizing"
    /\ processed_batches = <<>>
    /\ error' = "ValueError"
    /\ pc' = "failed"
    /\ UNCHANGED <<inputVars, batch_size, scanVars, accumulators, entity_key_counter,
                   finalizations, outputVars, runVars>>
    /\ UNCHANGED <<hash_seed, normVars, extractVars, sourceVars, bridgeVars>>

\* the tables the save_tables_to_csv of the current call has written: written
\* holds every file written to the output directory with the call that wrote
\* it, a file written again being written over
SavedTables == SelectSeq(written, LAMBDA w : w.call = run)

\* one turn of the loop of save_tables_to_csv: df.to_csv(output_file)
SaveTable ==
    /\ pc = "saving"
    /\ Len(SavedTables) < Len(TableNames)
    /\ written' = Append(written, [file |-> TableNames[Len(SavedTables) + 1], call |-> run])
    /\ UNCHANGED <<inputVars, batch_size, pc, error, scanVars, accumulators,
                   entity_key_counter, finalizations, all_tables, rejected_saved, runVars>>
    /\ UNCHANGED <<hash_seed, normVars, extractVars, sourceVars, bridgeVars>>

\* mkdir or the next to_csv of save_tables_to_csv raises OSError; the files
\* written before stay
SaveFails ==
    /\ pc = "saving"
    /\ Len(SavedTables) < Len(TableNames)
    /\ error' = "OSError"
    /\ pc' = "failed"
    /\ UNCHANGED <<inputVars, batch_size, scanVars, accumulators, entity_key_counter,
                   finalizations, outputVars, runVars>>
    /\ UNCHANGED <<hash_seed, normVars, extractVars, sourceVars, bridgeVars>>

\* step 5, self._save_rejected_entities(), and return all_tables:
\* rejected_entities.csv is written when the accumulator holds a rejection,
\* and a file of that name written before stays
SaveRejected ==
    /\ pc = "saving"
    /\ Len(SavedTables) = Len(TableNames)
    /\ rejected_saved' = (rejected_saved \/ rejected_entities_accumulator # <<>>)
    /\ pc' = "done"
    /\ UNCHANGED <<inputVars, batch_size, error, scanVars, accumulators, entity_key_counter,
                   finalizations, all_tables, written, runVars>>
    /\ UNCHANGED <<hash_seed, normVars, extractVars, sourceVars, bridgeVars>>

\* rejected_summary.to_csv raises OSError, the seven tables written
SaveRejectedFails ==
    /\ pc = "saving"
    /\ Len(SavedTables) = Len(TableNames)
    /\ rejected_entities_accumulator # <<>>
    /\ error' = "OSError"
    /\ pc' = "failed"
    /\ UNCHANGED <<inputVars, batch_size, scanVars, accumulators, entity_key_counter,
                   finalizations, outputVars, runVars>>
    /\ UNCHANGED <<hash_seed, normVars, extractVars, sourceVars, bridgeVars>>

\* the same input is processed again, by a new run of the program (a new hash
\* seed, a new BatchProcessor) with another batch size writing to a directory
\* of its own
RunAgain ==
    /\ pc = "done"
    /\ run = 1
    /\ run' = 2
    /\ first_batch_size' = batch_size
    /\ first_tables' = all_tables
    /\ batch_size' \in BatchSizes \ {batch_size}
    /\ pc' = "start"
    /\ error' = ""
    /\ pos' = 0
    /\ current_chunk_rows' = <<>>
    /\ chunk_df' = <<>>
    /\ total_rows' = 0
    /\ batch_count' = 0
    /\ processed_batches' = <<>>
    /\ dim_time_accumulator' = {}
    /\ dim_source_accumulator' = {}
    /\ dim_entity_accumulator' = {}
    /\ rejected_entities_accumulator' = <<>>
    /\ entity_key_counter' = 200
    /\ finalizations' = 0
    /\ all_tables' = NoTables
    /\ written' = <<>>
    /\ rejected_saved' = FALSE
    /\ hash_seed' \in {SuffixSeed(first) : first \in PipelineSuffixOrders}
    /\ UNCHANGED inputVars
    /\ UNCHANGED <<normVars, extractVars, sourceVars, bridgeVars>>

Next ==
    \/ LoadTagDefinitions
    \/ LoadFails
    \/ ReadRow
    \/ EndOfInput
    \/ ProcessChunk
    \/ Finalize
    \/ NoBatches
    \/ SaveTable
    \/ SaveFails
    \/ SaveRejected
    \/ SaveRejectedFails
    \/ RunAgain

\* process_csv_to_star_schema is called again on the BatchProcessor of a call
\* that returned or raised, with the same file or with the file less its
\* first data row: the locals of the call start anew, the fields of the
\* processor are what the call before left (nothing in
\* process_csv_to_star_schema resets them), and the files the call before
\* wrote are in the output directory still
CallAgain ==
    /\ pc \in {"done", "failed"}
    /\ run = 1
    /\ run' = 2
    /\ first_batch_size' = batch_size
    /\ first_tables' = IF pc = "done" THEN all_tables ELSE NoTables
    /\ csv_rows' \in {csv_rows} \cup (IF csv_rows = <<>> THEN {} ELSE {Tail(csv_rows)})
    /\ pc' = "start"
    /\ error' = ""
    /\ pos' = 0
    /\ current_chunk_rows' = <<>>
    /\ chunk_df' = <<>>
    /\ total_rows' = 0
    /\ batch_count' = 0
    /\ finalizations' = 0
    /\ all_tables' = NoTables
    /\ UNCHANGED <<csv_header, batch_size, accumulators, entity_key_counter, written,
                   rejected_saved>>
    /\ UNCHANGED <<hash_seed, normVars, extractVars, sourceVars, bridgeVars>>

\* one call of process_csv_to_star_schema on a new BatchProcessor
RunNext ==
    \/ LoadTagDefinitions
    \/ LoadFails
    \/ ReadRow
    \/ EndOfInput
    \/ ProcessChunk
    \/ Finalize
    \/ NoBatches
    \/ SaveTable
    \/ SaveFails
    \/ SaveRejected
    \/ SaveRejectedFails

ReuseNext ==
    \/ LoadTagDefinitions
    \/ LoadFails
    \/ ReadRow
    \/ EndOfInput
    \/ ProcessChunk
    \/ Finalize
    \/ NoBatches
    \/ SaveTable
    \/ SaveFails
    \/ SaveRejected
    \/ SaveRejectedFails
    \/ CallAgain

(***************************************************************************)
(* Specification SpecSource: the Source column of a file, chunk by chunk   *)
(* through _accumulate_dimensions, and step 3 of                           *)
(* process_csv_to_star_schema for Dim_Source.                              *)
(***************************************************************************)
MaxSources == 3

\* values of the Source column: empty, one character, no letter or digit,
\* digits only, a name with and without spaces around it, a name of 100 and a
\* name of 101 characters
SourcePool ==
    {<<>>,
      <<"A">>,
      <<"-", "-">>,
      <<"4", "2">>,
      <<"Z", "9">>,
      <<" ", "Z", "9", " ">>,
      <<"B", "B", "C", " ", "N", "e", "w", "s">>,
      <<"x", "x", "x", "x", "x", "x", "x", "x", "x", "x", "x", "x", "x", "x", "x", "x", "x", "x", "x", "x", "x", "x", "x", "x", "x", "x", "x", "x", "x", "x", "x", "x", "x", "x", "x", "x", "x", "x", "x", "x", "x", "x", "x", "x", "x", "x", "x", "x", "x", "x", "x", "x", "x", "x", "x", "x", "x", "x", "x", "x", "x", "x", "x", "x", "x", "x", "x", "x", "x", "x", "x", "x", "x", "x", "x", "x", "x", "x", "x", "x", "x", "x", "x", "x", "x", "x", "x", "x", "x", "x", "x", "x", "x", "x", "x", "x", "x", "x", "x", "x">>,
      <<"x", "x", "x", "x", "x", "x", "x", "x", "x", "x", "x", "x", "x", "x", "x", "x", "x", "x", "x", "x", "x", "x", "x", "x", "x", "x", "x", "x", "x", "x", "x", "x", "x", "x", "x", "x", "x", "x", "x", "x", "x", "x", "x", "x", "x", "x", "x", "x", "x", "x", "x", "x", "x", "x", "x", "x", "x", "x", "x", "x", "x", "x", "x", "x", "x", "x", "x", "x", "x", "x", "x", "x", "x", "x", "x", "x", "x", "x", "x", "x", "x", "x", "x", "x", "x", "x", "x", "x", "x", "x", "x", "x", "x", "x", "x", "x", "x", "x", "x", "x", "x">>}

SourceColumns == UNION {[1..n -> SourcePool] : n \in 1..MaxSources}

SourceInit ==
    /\ src_pc = "scanning"
    /\ src_values \in SourceColumns
    /\ src_batch \in {1, 2}
    /\ src_pos = 0
    /\ src_accumulator = {}
    /\ src_dim = <<>>
    /\ hash_seed \in SuffixSeeds({})
    /\ NormIdle
    /\ ExtractIdle
    /\ PipelineIdle
    /\ BridgeIdle

\* _accumulate_dimensions on the Source column of the next chunk
AccumulateSources ==
    /\ src_pc = "scanning"
    /\ src_pos < Len(src_values)
    /\ LET last == IntMin(src_pos + src_batch, Len(src_values))
       IN  /\ src_accumulator' =
                  Accumulate(src_accumulator,
                             SourceTuples(SubSeq(src_values, src_pos + 1, last)))
           /\ src_pos' = last
    /\ UNCHANGED <<src_pc, src_values, src_batch, src_dim>>
    /\ UNCHANGED <<hash_seed, normVars, extractVars, pipelineVars, bridgeVars>>

\* step 3: dim_source_df = self._build_dim_source_from_accumulator(), which
\* build_all_tables takes as its Dim_Source unless it is empty and then builds
\* from the articles; with a Dim_Source without rows build_fact_document
\* raises the KeyError at dim_source['Source_Key'] for the first article, and
\* the call ends without a table.  The other columns of the rows are such
\* that nothing but Dim_Source can fail the call: each row has a date, a tag
\* and a company
FinalizeSources ==
    /\ src_pc = "scanning"
    /\ src_pos = Len(src_values)
    /\ LET dim_source_df == build_dim_source_from_accumulator(src_accumulator)
           source == IF dim_source_df # <<>>
                     THEN [error |-> "", dim_source |-> dim_source_df]
                     ELSE build_dim_source([r \in 1..Len(src_values) |->
                                               [columns |-> {"Source"},
                                                Source |-> src_values[r]]])
       IN  IF source.error # "" \/ source.dim_source = <<>>
           THEN /\ src_pc' = "failed"
                /\ UNCHANGED src_dim
           ELSE /\ src_pc' = "done"
                /\ src_dim' = source.dim_source
    /\ UNCHANGED <<src_values, src_batch, src_pos, src_accumulator>>
    /\ UNCHANGED <<hash_seed, normVars, extractVars, pipelineVars, bridgeVars>>

SourceNext ==
    \/ AccumulateSources
    \/ FinalizeSources



(***************************************************************************)
(* Specifications.                                                         *)
(***************************************************************************)
SpecNorm == NormInit /\ [][NormNext]_vars

SpecExtract == ExtractInit /\ [][ExtractNext]_vars

\* two runs on one input, each on a new BatchProcessor, with different batch
\* sizes
Spec == PipelineInit /\ [][Next]_vars

SpecSource == SourceInit /\ [][SourceNext]_vars

SpecBridge == BridgeInit /\ [][BridgeNext]_vars

\* one call on a new BatchProcessor
SpecRun == PipelineInit /\ [][RunNext]_vars

\* two calls on one BatchProcessor
SpecReuse == PipelineInit /\ [][ReuseNext]_vars

(***************************************************************************)
(* Properties of process_csv_to_star_schema (specification Spec).          *)
(***************************************************************************)
Completed == pc = "done"
TablesBuilt == pc \in {"saving", "done"}
SecondRunCompleted == run = 2 /\ pc = "done"
EntityKeys(tables) == {tables.Dim_Entity[k].Entity_Key : k \in 1..Len(tables.Dim_Entity)}
TagKeys(tables) == {tables.Dim_Tag[k].Tag_Key : k \in 1..Len(tables.Dim_Tag)}

\* C1: two runs on the same input with different batch sizes return the same
\* Dim_Entity table: the same rows with the same Entity_Key.
DimEntityIndependentOfBatchSize ==
    SecondRunCompleted => all_tables.Dim_Entity = first_tables.Dim_Entity

\* C2: after finalization no two rows of Dim_Entity have names with the same
\* normalized form.
DimEntityNamesUnique ==
    TablesBuilt =>
        \A i, j \in 1..Len(all_tables.Dim_Entity) :
            i # j => normalize_entity_name(all_tables.Dim_Entity[i].Entity_Name)
                        # normalize_entity_name(all_tables.Dim_Entity[j].Entity_Name)

\* C3: a completed run has one Fact_Document row per input row whose column
\* count is the header's; reading a row of another column count raises
\* nothing and puts the row in no chunk, neither in the one being filled nor
\* in one handed to _process_batch, and with batch_size >= 1 it changes
\* nothing but the reader's position.
FactRowsAreWellFormedRows ==
    /\ [](Completed =>
             Len(all_tables.Fact_Document) = Len(WellFormedRows(csv_header, csv_rows)))
    /\ [][(pc = "scanning" /\ pos' = pos + 1 /\ ~WellFormed(csv_header, csv_rows[pos + 1]))
             => (/\ pc' \in {"scanning", "batch"}
                 /\ UNCHANGED <<error, current_chunk_rows, total_rows, accumulators>>
                 /\ (pc' = "batch") => (chunk_df' = current_chunk_rows)
                 /\ (batch_size >= 1) => (pc' = "scanning" /\ UNCHANGED batch_count))]_vars

\* a run completed on an input that holds a malformed row between well-formed
\* ones
FactRowsWitness ==
    /\ Completed
    /\ Len(all_tables.Fact_Document) = 2
    /\ Len(csv_rows) = 3
    /\ ~WellFormed(csv_header, csv_rows[2])

\* C4: in the tables build_all_tables returns, every Tag_Key of Bridge_Fact_Tag
\* is the key of a Dim_Tag row and every Entity_Key of Bridge_Fact_Entity is
\* the key of a Dim_Entity row.
BridgeKeysExist ==
    TablesBuilt =>
        /\ \A k \in 1..Len(all_tables.Bridge_Fact_Tag) :
               all_tables.Bridge_Fact_Tag[k].Tag_Key \in TagKeys(all_tables)
        /\ \A k \in 1..Len(all_tables.Bridge_Fact_Entity) :
               all_tables.Bridge_Fact_Entity[k].Entity_Key \in EntityKeys(all_tables)

\* tables in which two facts are bridged to one entity, one of them by a name
\* that is not the name of the Dim_Entity row
BridgeKeysWitness ==
    /\ TablesBuilt
    /\ all_tables.Bridge_Fact_Tag # <<>>
    /\ \E i, j \in 1..Len(all_tables.Bridge_Fact_Entity) :
          /\ all_tables.Bridge_Fact_Entity[i].Fact_ID # all_tables.Bridge_Fact_Entity[j].Fact_ID
          /\ all_tables.Bridge_Fact_Entity[i].Entity_Key = all_tables.Bridge_Fact_Entity[j].Entity_Key
    /\ Len(all_tables.Dim_Entity) = 1

\* C5: two runs on the same input with different batch sizes return identical
\* Dim_Time and Dim_Source tables and as many Fact_Document rows; the second
\* run fails only where the files cannot be read or written.
TimeAndSourceIndependentOfBatchSize ==
    /\ SecondRunCompleted =>
           (/\ all_tables.Dim_Time = first_tables.Dim_Time
            /\ all_tables.Dim_Source = first_tables.Dim_Source
            /\ Len(all_tables.Fact_Document) = Len(first_tables.Fact_Document))
    /\ (run = 2 /\ pc = "failed") => error \in {"FileNotFoundError", "OSError"}

\* the second run completed with batches other than those of the first, on
\* rows of two dates and two sources
TimeAndSourceWitness ==
    /\ SecondRunCompleted
    /\ 1 \in {batch_size, first_batch_size}
    /\ Len(all_tables.Fact_Document) >= 2
    /\ Len(all_tables.Dim_Time) >= 2
    /\ Len(all_tables.Dim_Source) >= 2

\* C6: a run is all-or-nothing: when it ends in an error no table file has
\* been written, when it completes all of them have.
AllOrNothing ==
    /\ (pc = "failed" => written = <<>>)
    /\ (Completed => Len(written) = Len(TableNames))

\* the step that finalizes is taken with the reader exhausted and every
\* well-formed row in the processed batches, in order
FinalizeAfterScan ==
    (finalizations' # finalizations /\ run' = run) =>
        (/\ pos = Len(csv_rows)
         /\ Flatten([b \in 1..Len(processed_batches) |->
                        [r \in 1..Len(processed_batches[b]) |-> processed_batches[b][r].Date]])
              = [r \in 1..Len(WellFormedRows(csv_header, csv_rows)) |->
                    ColumnOf(csv_header, WellFormedRows(csv_header, csv_rows)[r], "Date")]
         /\ total_rows = Len(WellFormedRows(csv_header, csv_rows)))

\* once finalization has begun the call processes no batch and changes no
\* accumulator
FrozenAfterFinalize ==
    (finalizations >= 1 /\ run' = run) =>
        UNCHANGED <<accumulators, batch_count, total_rows, pos>>

\* C7: within one call finalization happens once, after every well-formed row
\* was handed to _process_batch, and from then on no batch is processed and no
\* accumulator changes.
FinalizeOnceAfterScan ==
    /\ [](finalizations <= 1 /\ (TablesBuilt => finalizations = 1))
    /\ [][FinalizeAfterScan /\ FrozenAfterFinalize]_vars

\* a call finalized after three batches and completed
FinalizeOnceWitness ==
    /\ Completed
    /\ finalizations = 1
    /\ batch_count = 3

(***************************************************************************)
(* Properties of _normalize_entity_name (specification SpecNorm).          *)
(***************************************************************************)
\* C8: _normalize_entity_name is idempotent: normalizing the normalized form of
\* a name gives that normalized form again, whatever order the suffixes of
\* equal length are tried in.
NormalizeIdempotent == nm_pc = "twice" => nm_again = nm_norm

\* a name that lost a suffix and its separators has been normalized twice
NormalizeIdempotentWitness ==
    /\ nm_pc = "twice"
    /\ nm_norm # <<>>
    /\ Len(nm_norm) + 3 < Len(Flatten(nm_pieces))
    /\ \E k \in 1..Len(nm_pieces) : nm_pieces[k] = <<" ">>

\* C9: lexical variants of one name (letter case, separators between words, a
\* trailing corporate suffix, '&' for 'and') have the normalized form of the
\* name.
VariantsCollapse == nm_pc = "compared" => nm_vnorm = nm_norm

\* the part of C9 that names 'AstraZeneca', 'Astra Zeneca' and 'AstraZeneca Inc'
AstraZenecaCollapse ==
    /\ normalize_entity_name(<<"A", "s", "t", "r", "a", "Z", "e", "n", "e", "c", "a">>)
         = normalize_entity_name(<<"A", "s", "t", "r", "a", " ", "Z", "e", "n", "e", "c", "a">>)
    /\ normalize_entity_name(<<"A", "s", "t", "r", "a", "Z", "e", "n", "e", "c", "a">>)
         = normalize_entity_name(<<"A", "s", "t", "r", "a", "Z", "e", "n", "e", "c", "a", " ", "I", "n", "c">>)

\* a variant by one more trailing suffix whose key differs from the name's
VariantsSplit ==
    /\ nm_pc = "compared"
    /\ nm_kind = "suffix"
    /\ nm_vnorm # nm_norm

(***************************************************************************)
(* Properties of the two matchers (specification SpecExtract).             *)
(***************************************************************************)
\* C10: every confidence returned by match_article_to_tags and every
\* confidence returned by extract_entities_from_article lies in [0, 1], that
\* is between 0 and 100 hundredths.
ConfidenceBounded ==
    /\ \A k \in 1..Len(ex_matches) : ex_matches[k][2] \in 0..100
    /\ \A k \in 1..Len(ex_entities) : ex_entities[k][3] \in 0..100

\* both strategies of both matchers fired on one article: a tag at 1.0 from the
\* text search with its boosts, a tag at 0.9 from the hint column, an entity at
\* 0.9 from the hints and an entity at 1.0 from the registry
ConfidenceBoundedWitness ==
    /\ ex_pc = "extracted"
    /\ \E k \in 1..Len(ex_matches) : ex_matches[k][2] = 100
    /\ \E k \in 1..Len(ex_matches) : ex_matches[k][2] = 90
    /\ \E k \in 1..Len(ex_entities) : ex_entities[k][3] = 90
    /\ \E k \in 1..Len(ex_entities) : ex_entities[k][3] = 100

(***************************************************************************)
(* The sample documents (specification SpecExtract).                       *)
(***************************************************************************)
\* C11: for the document with the hints "Pfizer; Eli Lilly; Oncology" whose text
\* names "Pfizer Inc." twice, and without a company registry,
\* extract_entities_from_article returns "Pfizer" at confidence 0.9 with mention
\* count 2 and "Eli Lilly" at 0.9, does not return "Oncology", and appends
\* "Oncology" to the rejected entities.
PfizerScenarioEntities ==
    (ex_pc = "extracted" /\ ex_article = PfizerArticle) =>
        /\ \E k \in 1..Len(ex_entities) :
              /\ ex_entities[k][1] = <<"P", "f", "i", "z", "e", "r">>
              /\ ex_entities[k][3] = 90
              /\ ex_entities[k][4] = 2
        /\ \E k \in 1..Len(ex_entities) :
              /\ ex_entities[k][1] = <<"E", "l", "i", " ", "L", "i", "l", "l", "y">>
              /\ ex_entities[k][3] = 90
        /\ \A k \in 1..Len(ex_entities) : ex_entities[k][1] # <<"O", "n", "c", "o", "l", "o", "g", "y">>
        /\ \E k \in 1..Len(ex_rejected) : ex_rejected[k] = <<"O", "n", "c", "o", "l", "o", "g", "y">>

\* what the extractor returns for that document: "Eli Lilly" alone, with
\* "Pfizer" and "Oncology" both rejected
PfizerScenarioReturned ==
    (ex_pc = "extracted" /\ ex_article = PfizerArticle) =>
        /\ ex_entities = << <<<<"E", "l", "i", " ", "L", "i", "l", "l", "y">>, CompanyType, 90, 0>> >>
        /\ ex_rejected = <<<<"P", "f", "i", "z", "e", "r">>, <<"O", "n", "c", "o", "l", "o", "g", "y">>>>

\* C12: with the tag "acquisition" of keywords acquire, acquired, buy, and a
\* document without hints whose text says "Pfizer announced acquisition of"
\* twice, match_article_to_tags returns "acquisition" at a confidence of at
\* least 0.5.
AcquisitionTagged ==
    (ex_pc \in {"matched", "extracted"} /\ ex_article = AcquisitionArticle) =>
        \E k \in 1..Len(ex_matches) :
            /\ ex_matches[k][1] = <<"a", "c", "q", "u", "i", "s", "i", "t", "i", "o", "n">>
            /\ ex_matches[k][2] >= 50

\* what the matcher returns for that document: no tag
AcquisitionReturned ==
    (ex_pc \in {"matched", "extracted"} /\ ex_article = AcquisitionArticle) =>
        ex_matches = <<>>


\* the hint tokens _extract_from_matched_keywords accepts for the article at
\* hand, the company list left out
AcceptedHints == KeywordEntities(ex_article, load_company_names(MissingFile))

\* C20: without a company list, the display name extract_entities_from_article
\* returns for a normalized identity is the longest of the accepted hint
\* tokens that share the identity, whatever the order of iteration.
LongestDisplayName ==
    (ex_pc = "extracted" /\ ex_companies.rows = <<>>) =>
        \A k \in 1..Len(ex_entities) :
            \A hint \in Range(AcceptedHints) :
                hint[1] = normalize_entity_name(ex_entities[k][1])
                    => Len(hint[2]) <= Len(ex_entities[k][1])

\* the hints "Teva; Teva Inc" without a company list: no call returns Teva,
\* and no call returns Teva Inc
TevaHints ==
    /\ ex_pc = "extracted"
    /\ ex_companies.rows = <<>>
    /\ ex_article.matched_keywords = <<"T", "e", "v", "a", ";", " ", "T", "e", "v", "a", " ", "I", "n", "c">>
ShortFormNeverReturned == ~(TevaHints /\ ex_entities = << <<<<"T", "e", "v", "a">>, CompanyType, 90, 0>> >>)
LongFormNeverReturned == ~(TevaHints /\ ex_entities = << <<<<"T", "e", "v", "a", " ", "I", "n", "c">>, CompanyType, 90, 0>> >>)


\* the matches of a tag's pattern in the text at hand
TextMatchesOf(tag) ==
    IF tag.Keywords = <<>> \/ ex_text = <<>> THEN <<>> ELSE FindAll(ex_text, tag.Keywords, 1)

\* a match of the tag is a word among the first 20 tokens of the text at hand
InFirstTokens(tag) ==
    LET text_parts == SplitWords(ex_text, 1)
    IN  \E k \in 1..IntMin(20, Len(text_parts)) :
            \E match \in Range(TextMatchesOf(tag)) : match \in WordRuns(text_parts[k])

\* the confidence of the rule for u unique matches, in hundredths
RuleConfidence(u, in_first_tokens, tag_category, medical) ==
    IntMin(100, IntMin(80, 40 + 10 * u)
                + (IF in_first_tokens THEN 20 ELSE 0)
                + (IF tag_category = "Event" /\ u > 1 THEN 10 ELSE 0)
                + (IF tag_category = "Therapy" /\ medical THEN 10 ELSE 0))

\* the text-search confidence of every tag with a match is that of the rule,
\* the boost of the first 20 tokens given to the texts for which long holds
TextConfidenceWhen(long(_)) ==
    ex_pc \in {"matched", "extracted"} =>
        \A t \in 1..Len(ex_taxonomy) :
            LET tag == ex_taxonomy[t]
                u == Cardinality(Range(TextMatchesOf(tag)))
            IN  u >= 1 =>
                    ConfidenceIn(search_text_for_tags(ex_taxonomy, ex_text, 1), tag.Tag_Name)
                        = RuleConfidence(u, InFirstTokens(tag) /\ long(ex_text), tag.Tag_Category,
                                         \E term \in medical_terms : Contains(ex_text, term))

\* C21: for every tag with u >= 1 unique keyword matches in the combined
\* normalized text, of whatever length, the text-search confidence is
\* min(0.8, 0.4 + 0.1 u), plus 0.2 if a matched keyword is among the first 20
\* tokens, plus 0.1 for an Event tag with u > 1, plus 0.1 for a Therapy tag
\* when a medical term occurs in the text, capped at 1.0.
TextConfidenceAnyLength == TextConfidenceWhen(LAMBDA text : TRUE)

\* what the code computes: the boost of the first 20 tokens is given only to
\* a text of more than 10 tokens
TextConfidenceLongText == TextConfidenceWhen(LAMBDA text : Len(SplitWords(text, 1)) > 10)

\* no text of at most 10 tokens has a match
ShortTextNeverMatched ==
    ~(/\ ex_pc = "matched"
      /\ Len(SplitWords(ex_text, 1)) <= 10
      /\ \E t \in 1..Len(ex_taxonomy) : TextMatchesOf(ex_taxonomy[t]) # <<>>)


\* the candidates of the article at hand: the <<normalized, display name,
\* confidence>> tuples of the hint column and of the text
Candidates ==
    Range(KeywordEntities(ex_article, load_company_names(ex_companies)))
        \cup Range(KnownEntities(ex_text, load_company_names(ex_companies)))

\* the candidates that collide on a normalized identity
CandidatesOf(normalized) == {c \in Candidates : c[1] = normalized}

\* C22, as the code has it: the list extract_entities_from_article returns
\* has one tuple per normalized identity of the candidates and no other; the
\* tuple has the confidence of the best candidate of its identity, or 1.0
\* where the identity is in the company list, whose entry overrides it, and
\* the largest mention count of the candidates of its identity.
OneTuplePerIdentity ==
    ex_pc = "extracted" =>
        /\ \A i, j \in 1..Len(ex_entities) :
              normalize_entity_name(ex_entities[i][1]) = normalize_entity_name(ex_entities[j][1])
                  => i = j
        /\ {normalize_entity_name(ex_entities[k][1]) : k \in 1..Len(ex_entities)}
               = {c[1] : c \in Candidates}
        /\ \A k \in 1..Len(ex_entities) :
              LET colliding == CandidatesOf(normalize_entity_name(ex_entities[k][1]))
                  counts == {count_entity_mentions(c[2], FullText(ex_article)) : c \in colliding}
              IN  /\ \A c \in colliding : c[3] <= ex_entities[k][3]
                  /\ \/ \E c \in colliding : c[3] = ex_entities[k][3]
                     \/ /\ ex_entities[k][3] = 100
                        /\ normalize_entity_name(ex_entities[k][1])
                               \in DOMAIN load_company_names(ex_companies).manual
                  /\ ex_entities[k][4] = SetMax(counts)

\* C22, as stated: one tuple per normalized identity, and the kept tuple has
\* the highest confidence among the colliding candidates and the largest of
\* their mention counts.
KeptTupleIsBestCandidate ==
    ex_pc = "extracted" =>
        /\ \A i, j \in 1..Len(ex_entities) :
              normalize_entity_name(ex_entities[i][1]) = normalize_entity_name(ex_entities[j][1])
                  => i = j
        /\ \A k \in 1..Len(ex_entities) :
              LET colliding == CandidatesOf(normalize_entity_name(ex_entities[k][1]))
                  counts == {count_entity_mentions(c[2], FullText(ex_article)) : c \in colliding}
              IN  Cardinality(colliding) >= 2 =>
                      /\ \A c \in colliding : c[3] <= ex_entities[k][3]
                      /\ \E c \in colliding : c[3] = ex_entities[k][3]
                      /\ ex_entities[k][4] = SetMax(counts)

\* the same on the articles whose colliding identities the company list does
\* not hold
KeptTupleIsBestUnlessListed ==
    ex_pc = "extracted" =>
        \A k \in 1..Len(ex_entities) :
            LET colliding == CandidatesOf(normalize_entity_name(ex_entities[k][1]))
            IN  (normalize_entity_name(ex_entities[k][1])
                     \notin DOMAIN load_company_names(ex_companies).manual)
                    => \E c \in colliding : c[3] = ex_entities[k][3]

\* an article whose hint column and text give two candidates of one identity
\* with different confidences: the company list holds the identity and the
\* tuple returned has confidence 1.0
CollisionAcrossSources ==
    /\ ex_pc = "extracted"
    /\ \E c, d \in Candidates : c[1] = d[1] /\ c[3] = 90 /\ d[3] = 70
    /\ Len(ex_entities) >= 1

\* an article whose hint column gives two candidates of one identity, the
\* company list being empty
CollisionWithinHints ==
    /\ ex_pc = "extracted"
    /\ ex_companies.rows = <<>>
    /\ \E c, d \in Candidates : c[1] = d[1] /\ c[2] # d[2]
    /\ Len(ex_entities) = 1


(***************************************************************************)
(* Properties of the tables of a run (specification Spec).                 *)
(***************************************************************************)
\* the integer the digits of a text spell, other characters left out
DigitsNumber(s) ==
    LET digits == SelectSeq(s, IsDigit)
        value[k \in 0..Len(digits)] ==
            IF k = 0 THEN 0 ELSE 10 * value[k - 1] + DigitValue(digits[k])
    IN  value[Len(digits)]

\* the values of the Date column of the well-formed rows, in input order
InputDates ==
    LET rows == WellFormedRows(csv_header, csv_rows)
    IN  [r \in 1..Len(rows) |-> ArticleOf(csv_header, rows[r]).Date]

\* C13: every document gets one Fact_Document row; the row of a document whose
\* date is absent or does not parse has the Date_Key 19000101, the row of a
\* document whose date parses has its YYYYMMDD integer.
FactDateKeys ==
    TablesBuilt =>
        /\ Len(all_tables.Fact_Document) = Len(InputDates)
        /\ \A r \in 1..Len(InputDates) :
              all_tables.Fact_Document[r].Date_Key =
                  IF to_datetime(InputDates[r]).ok THEN DigitsNumber(InputDates[r])
                  ELSE 19000101

\* a completed run over a document without a date, a document dated
\* "not-a-date" and a document dated 2024-01-15
FactDateKeysWitness ==
    /\ Completed
    /\ \E r \in 1..Len(InputDates) :
          InputDates[r] = <<>> /\ all_tables.Fact_Document[r].Date_Key = 19000101
    /\ \E r \in 1..Len(InputDates) :
          /\ InputDates[r] = <<"n", "o", "t", "-", "a", "-", "d", "a", "t", "e">>
          /\ all_tables.Fact_Document[r].Date_Key = 19000101
    /\ \E r \in 1..Len(InputDates) :
          /\ InputDates[r] = <<"2", "0", "2", "4", "-", "0", "1", "-", "1", "5">>
          /\ all_tables.Fact_Document[r].Date_Key = 20240115


\* the number of Bridge_Fact_Tag rows of a fact
BridgeTagRows(tables, fact_id) ==
    Cardinality({k \in 1..Len(tables.Bridge_Fact_Tag) :
                    tables.Bridge_Fact_Tag[k].Fact_ID = fact_id})

\* C15: in the Fact_Document that build_all_tables returns, Tag_Count is the
\* number of Bridge_Fact_Tag rows with the row's Fact_ID, and Has_Key_Event is
\* Yes exactly when Tag_Count is above 0 and No otherwise.
TagCountsMatchBridge ==
    TablesBuilt =>
        \A r \in 1..Len(all_tables.Fact_Document) :
            LET fact == all_tables.Fact_Document[r]
            IN  /\ fact.Tag_Count = BridgeTagRows(all_tables, fact.Fact_ID)
                /\ fact.Has_Key_Event \in {"Yes", "No"}
                /\ fact.Has_Key_Event = "Yes" <=> fact.Tag_Count > 0

\* a completed run with a document of two tags and a document of none
TagCountsWitness ==
    /\ Completed
    /\ \E r \in 1..Len(all_tables.Fact_Document) :
          /\ all_tables.Fact_Document[r].Tag_Count = 2
          /\ all_tables.Fact_Document[r].Has_Key_Event = "Yes"
    /\ \E r \in 1..Len(all_tables.Fact_Document) :
          /\ all_tables.Fact_Document[r].Tag_Count = 0
          /\ all_tables.Fact_Document[r].Has_Key_Event = "No"


\* the (name, type, domain) tuple of a Dim_Entity row
EntityTupleOf(row) == <<row.Entity_Name, row.Entity_Type, row.Entity_Domain>>

\* C17: the finalized Dim_Entity has one row per accumulated entity tuple, the
\* rows in ascending order of the tuples and keyed 200, 201, ... without gaps
\* or repeats; a run that accumulated the tuples of the run before it gives
\* each of them the key it had.
DimEntityKeysSequential ==
    (TablesBuilt /\ dim_entity_accumulator # {}) =>
        LET dim_entity == all_tables.Dim_Entity
        IN  /\ Len(dim_entity) = Cardinality(dim_entity_accumulator)
            /\ {EntityTupleOf(dim_entity[i]) : i \in 1..Len(dim_entity)} = dim_entity_accumulator
            /\ \A i \in 1..Len(dim_entity) : dim_entity[i].Entity_Key = 200 + (i - 1)
            /\ \A i, j \in 1..Len(dim_entity) :
                  i < j => EntityTupleLess(EntityTupleOf(dim_entity[i]), EntityTupleOf(dim_entity[j]))
            /\ (/\ run = 2
                /\ {EntityTupleOf(first_tables.Dim_Entity[i]) :
                        i \in 1..Len(first_tables.Dim_Entity)} = dim_entity_accumulator)
                   => dim_entity = first_tables.Dim_Entity

\* a completed run of three batches that accumulated Teva first and Acme Corp
\* and Deal after it, Acme Corp getting the key 200 and Teva the key 202
DimEntityKeysWitness ==
    /\ Completed
    /\ batch_size = 1
    /\ Len(processed_batches) = 3
    /\ processed_batches[1][1].extracted_entities = << <<"T", "e", "v", "a">> >>
    /\ Len(all_tables.Dim_Entity) = 3
    /\ all_tables.Dim_Entity[1].Entity_Name = <<"A", "c", "m", "e", " ", "C", "o", "r", "p">>
    /\ all_tables.Dim_Entity[1].Entity_Key = 200
    /\ all_tables.Dim_Entity[3].Entity_Name = <<"T", "e", "v", "a">>
    /\ all_tables.Dim_Entity[3].Entity_Key = 202


\* the members of the dimension tables: the Date_Keys of a Dim_Time, the names
\* of a Dim_Source and of a Dim_Entity
DateKeysOf(dim_time) == {dim_time[k].Date_Key : k \in 1..Len(dim_time)}
SourceNamesOf(dim_source) == {dim_source[k].Source_Name : k \in 1..Len(dim_source)}
EntityNamesOf(dim_entity) == {dim_entity[k].Entity_Name : k \in 1..Len(dim_entity)}

\* C19: at finalization the dimension tables built from the accumulators have
\* the members that build_dim_time, build_dim_source and build_dim_entity
\* derive from the concatenated processed batches.
DimensionsAsFromScratch ==
    TablesBuilt =>
        LET combined_df == ConcatBatches(processed_batches)
        IN  /\ DateKeysOf(all_tables.Dim_Time) = DateKeysOf(build_dim_time(combined_df).dim_time)
            /\ SourceNamesOf(all_tables.Dim_Source) = SourceNamesOf(build_dim_source(combined_df).dim_source)
            /\ EntityNamesOf(all_tables.Dim_Entity) =
                   EntityNamesOf(build_dim_entity(combined_df, 200).dim_entity)

\* what the code keeps of C19: the sources are those derived from scratch; the
\* dates and the entities are among those derived from scratch, and the only
\* date that can be missing is the sentinel of the dates that do not parse
DimensionsWithinFromScratch ==
    TablesBuilt =>
        LET combined_df == ConcatBatches(processed_batches)
            scratch_dates == DateKeysOf(build_dim_time(combined_df).dim_time)
        IN  /\ DateKeysOf(all_tables.Dim_Time) \subseteq scratch_dates
            /\ scratch_dates \ DateKeysOf(all_tables.Dim_Time) \subseteq {SentinelDateKey}
            /\ SourceNamesOf(all_tables.Dim_Source) = SourceNamesOf(build_dim_source(combined_df).dim_source)
            /\ EntityNamesOf(all_tables.Dim_Entity) \subseteq
                   EntityNamesOf(build_dim_entity(combined_df, 200).dim_entity)

\* the two ways C19 fails: a run whose Dim_Time lacks the sentinel date that
\* build_dim_time derives, and a run whose Dim_Entity lacks a name that
\* build_dim_entity derives
SentinelDateMissing ==
    ~(/\ Completed
      /\ SentinelDateKey \in DateKeysOf(build_dim_time(ConcatBatches(processed_batches)).dim_time)
      /\ SentinelDateKey \notin DateKeysOf(all_tables.Dim_Time)
      /\ all_tables.Dim_Time # <<>>)
EntityNameMissing ==
    ~(/\ Completed
      /\ EntityNamesOf(build_dim_entity(ConcatBatches(processed_batches), 200).dim_entity)
             \ EntityNamesOf(all_tables.Dim_Entity) # {})


(***************************************************************************)
(* Properties of build_bridge_fact_entity (specification SpecBridge).      *)
(***************************************************************************)
\* the Entity_Keys of the Dim_Entity rows of a name
KeysOfName(name) ==
    {br_dim_entity[k].Entity_Key : k \in {k \in 1..Len(br_dim_entity) :
                                              br_dim_entity[k].Entity_Name = name}}

\* the Entity_Keys of the Bridge_Fact_Entity rows of document r
BridgeKeysOf(r) ==
    {br_bridge[k].Entity_Key : k \in {k \in 1..Len(br_bridge) :
                                         br_bridge[k].Fact_ID = br_fact_document[r].Fact_ID}}

\* the extracted entity of document r
EntityOfDocument(r) == br_articles[r].extracted_entities[1]

\* Dim_Entity has the row Reata Pharmaceuticals and no other row whose first
\* word is reata
OnlyReataPharmaceuticals ==
    /\ KeysOfName(<<"R", "e", "a", "t", "a", " ", "P", "h", "a", "r", "m", "a", "c", "e", "u", "t", "i", "c", "a", "l", "s">>) # {}
    /\ \A k \in 1..Len(br_dim_entity) :
          CoreName(StrLower(br_dim_entity[k].Entity_Name)) = <<"r", "e", "a", "t", "a">>
              => br_dim_entity[k].Entity_Name = <<"R", "e", "a", "t", "a", " ", "P", "h", "a", "r", "m", "a", "c", "e", "u", "t", "i", "c", "a", "l", "s">>

\* the documents of entity Reata and of entity Reata Pharmaceuticals each have
\* one bridge row, with the key of the row Reata Pharmaceuticals
ReataDocumentsShareKey ==
    \A r \in 1..Len(br_articles) :
        EntityOfDocument(r) \in {<<"R", "e", "a", "t", "a">>, <<"R", "e", "a", "t", "a", " ", "P", "h", "a", "r", "m", "a", "c", "e", "u", "t", "i", "c", "a", "l", "s">>}
            => /\ BridgeKeysOf(r) = KeysOfName(<<"R", "e", "a", "t", "a", " ", "P", "h", "a", "r", "m", "a", "c", "e", "u", "t", "i", "c", "a", "l", "s">>)
               /\ Cardinality({k \in 1..Len(br_bridge) :
                                  br_bridge[k].Fact_ID = br_fact_document[r].Fact_ID}) = 1

\* what the code does for the two documents: with Reata Pharmaceuticals the
\* only row of core word reata, the documents of entity Reata and of entity
\* Reata Pharmaceuticals get a bridge row with the same Entity_Key; Reata
\* Pharmaceuticals is resolved by the exact match (tier 1) and Reata by the
\* normalized match (tier 2), which strips the suffix ' pharmaceuticals', so
\* that the core-name match the comment of tier 3 names Reata for never runs.
ReataResolvesBeforeCoreName ==
    (br_pc = "built" /\ OnlyReataPharmaceuticals) =>
        /\ ReataDocumentsShareKey
        /\ \A r \in 1..Len(br_articles) :
              /\ (EntityOfDocument(r) = <<"R", "e", "a", "t", "a", " ", "P", "h", "a", "r", "m", "a", "c", "e", "u", "t", "i", "c", "a", "l", "s">> => br_tiers[r][1] = 1)
              /\ (EntityOfDocument(r) = <<"R", "e", "a", "t", "a">> => br_tiers[r][1] = 2)

\* C14: with Reata Pharmaceuticals the only Dim_Entity row of core word reata,
\* the documents of entity Reata and of entity Reata Pharmaceuticals both get
\* a bridge row with the same Entity_Key, each resolved by the core-name match
\* (tier 3).
ReataResolvesByCoreName ==
    (br_pc = "built" /\ OnlyReataPharmaceuticals) =>
        /\ ReataDocumentsShareKey
        /\ \A r \in 1..Len(br_articles) :
              EntityOfDocument(r) \in {<<"R", "e", "a", "t", "a">>, <<"R", "e", "a", "t", "a", " ", "P", "h", "a", "r", "m", "a", "c", "e", "u", "t", "i", "c", "a", "l", "s">>} => br_tiers[r][1] = 3

\* a document of entity Reata and a document of entity Reata Pharmaceuticals
\* bridged to a Dim_Entity of Reata Pharmaceuticals and AstraZeneca
ReataWitness ==
    /\ br_pc = "built"
    /\ OnlyReataPharmaceuticals
    /\ Len(br_dim_entity) = 2
    /\ Len(br_articles) = 2
    /\ EntityOfDocument(1) = <<"R", "e", "a", "t", "a">>
    /\ EntityOfDocument(2) = <<"R", "e", "a", "t", "a", " ", "P", "h", "a", "r", "m", "a", "c", "e", "u", "t", "i", "c", "a", "l", "s">>
    /\ Len(br_bridge) = 2
    /\ br_bridge[1].Entity_Key = br_bridge[2].Entity_Key


\* C18: a document entity name that is not a Dim_Entity name but has the
\* normalized form, under _normalize_entity_name, of a Dim_Entity row's name
\* gets a bridge row with that row's Entity_Key.
NormalizedFormResolves ==
    br_pc = "built" =>
        \A r \in 1..Len(br_articles) :
            \A k \in 1..Len(br_dim_entity) :
                (/\ KeysOfName(EntityOfDocument(r)) = {}
                 /\ normalize_entity_name(EntityOfDocument(r))
                        = normalize_entity_name(br_dim_entity[k].Entity_Name))
                    => br_dim_entity[k].Entity_Key \in BridgeKeysOf(r)

\* what the code does for Astra Zeneca against a Dim_Entity with AstraZeneca:
\* the two names have one normalized form under _normalize_entity_name, no
\* tier finds a key and the document gets no bridge row
AstraZenecaUnresolved ==
    br_pc = "built" =>
        \A r \in 1..Len(br_articles) :
            EntityOfDocument(r) = <<"A", "s", "t", "r", "a", " ", "Z", "e", "n", "e", "c", "a">>
                => /\ normalize_entity_name(<<"A", "s", "t", "r", "a", " ", "Z", "e", "n", "e", "c", "a">>) = normalize_entity_name(<<"A", "s", "t", "r", "a", "Z", "e", "n", "e", "c", "a">>)
                   /\ BridgeNormalize(<<"A", "s", "t", "r", "a", " ", "Z", "e", "n", "e", "c", "a">>) # BridgeNormalize(<<"A", "s", "t", "r", "a", "Z", "e", "n", "e", "c", "a">>)
                   /\ br_tiers[r][1] = 0
                   /\ BridgeKeysOf(r) = {}

\* a document of entity Astra Zeneca is never bridged to a Dim_Entity that
\* has the row AstraZeneca
AstraZenecaNeverMet ==
    ~(/\ br_pc = "built"
      /\ KeysOfName(<<"A", "s", "t", "r", "a", "Z", "e", "n", "e", "c", "a">>) # {}
      /\ \E r \in 1..Len(br_articles) : EntityOfDocument(r) = <<"A", "s", "t", "r", "a", " ", "Z", "e", "n", "e", "c", "a">>)


\* the Dim_Entity rows whose first word, in lower case, is that of the name
RowsOfCoreWord(name) ==
    {k \in 1..Len(br_dim_entity) :
        CoreName(StrLower(br_dim_entity[k].Entity_Name)) = CoreName(StrLower(name))}

\* the name is one word and neither the exact nor the normalized match finds it
SingleWordUnmatched(name) ==
    /\ Len(SplitWords(name, 1)) = 1
    /\ KeysOfName(name) = {}
    /\ \A k \in 1..Len(br_dim_entity) :
          BridgeNormalize(br_dim_entity[k].Entity_Name) # BridgeNormalize(name)

\* C23: a single-word document entity name that fails the exact and the
\* normalized match resolves, when its core word is the first word of one
\* Dim_Entity row, to that row, and when it is the first word of two or more
\* rows, to the row with the shortest Entity_Name among them.
CoreNameResolvesToShortest ==
    br_pc = "built" =>
        \A r \in 1..Len(br_articles) :
            LET rows == RowsOfCoreWord(EntityOfDocument(r))
            IN  (SingleWordUnmatched(EntityOfDocument(r)) /\ rows # {}) =>
                    /\ br_tiers[r][1] = 3
                    /\ \E k \in rows :
                          /\ BridgeKeysOf(r) = {br_dim_entity[k].Entity_Key}
                          /\ \A j \in rows : Len(br_dim_entity[k].Entity_Name)
                                                  <= Len(br_dim_entity[j].Entity_Name)

\* a document of entity Reata bridged to a Dim_Entity whose rows Reata Alliance
\* and Reata Bio, in this order, share its core word: it gets the key of Reata
\* Bio
ShortestCandidateWitness ==
    /\ br_pc = "built"
    /\ EntityOfDocument(1) = <<"R", "e", "a", "t", "a">>
    /\ SingleWordUnmatched(<<"R", "e", "a", "t", "a">>)
    /\ Cardinality(RowsOfCoreWord(<<"R", "e", "a", "t", "a">>)) = 2
    /\ br_dim_entity[1].Entity_Name = <<"R", "e", "a", "t", "a", " ", "A", "l", "l", "i", "a", "n", "c", "e">>
    /\ BridgeKeysOf(1) = KeysOfName(<<"R", "e", "a", "t", "a", " ", "B", "i", "o">>)
    /\ br_tiers[1][1] = 3

\* a document of entity Reata bridged to a Dim_Entity with the one row Reata
\* Bio of its core word
SingleCandidateWitness ==
    /\ br_pc = "built"
    /\ EntityOfDocument(1) = <<"R", "e", "a", "t", "a">>
    /\ SingleWordUnmatched(<<"R", "e", "a", "t", "a">>)
    /\ Cardinality(RowsOfCoreWord(<<"R", "e", "a", "t", "a">>)) = 1
    /\ BridgeKeysOf(1) = KeysOfName(<<"R", "e", "a", "t", "a", " ", "B", "i", "o">>)


(***************************************************************************)
(* Properties of Dim_Source (specification SpecSource).                    *)
(***************************************************************************)
\* the trimmed values of the Source column
TrimmedSources == {Strip(src_values[r]) : r \in 1..Len(src_values)}

\* the trimmed values of 2 to 100 characters that are not digits only and have
\* a letter or a digit
NamedSources ==
    {s \in TrimmedSources :
        /\ Len(s) >= 2
        /\ Len(s) <= 100
        /\ \E i \in 1..Len(s) : ~IsDigit(s[i])
        /\ \E i \in 1..Len(s) : IsAlnum(s[i])}

\* C16: the finalized Dim_Source has one row per distinct trimmed source value
\* of 2 to 100 characters that is not purely digits and has an alphanumeric
\* character, and no other row; its Source_Keys are 1..n in ascending order
\* of the source name.
DimSourceRows ==
    src_pc = "done" =>
        /\ {src_dim[k].Source_Name : k \in 1..Len(src_dim)} = NamedSources
        /\ Len(src_dim) = Cardinality(NamedSources)
        /\ \A k \in 1..Len(src_dim) : src_dim[k].Source_Key = k
        /\ \A i, j \in 1..Len(src_dim) :
              i < j => StrLess(src_dim[i].Source_Name, src_dim[j].Source_Name)

\* a finalized Dim_Source of two rows for a column of three values, one of
\* them filtered out, one of them trimmed, the values met in descending order
DimSourceWitness ==
    /\ src_pc = "done"
    /\ src_values = << <<" ", "Z", "9", " ">>, <<"4", "2">>, <<"B", "B", "C", " ", "N", "e", "w", "s">> >>
    /\ Len(src_dim) = 2
    /\ src_dim[1].Source_Name = <<"B", "B", "C", " ", "N", "e", "w", "s">>
    /\ src_dim[2].Source_Name = <<"Z", "9">>

\* a file none of whose Source values is a valid name ends the call in the
\* KeyError, and no other file does: no Dim_Source is finalized for it
NoNamedSourceFails ==
    /\ (src_pc = "failed") <=> (src_pc \in {"done", "failed"} /\ NamedSources = {})
    /\ (src_pc = "failed") => (src_dim = <<>>)

(***************************************************************************)
(* The batches of a run and the order of its facts.                        *)
(***************************************************************************)
\* the rows of the b-th batch of a run: batch_size well-formed rows, or the
\* rows that are left
RowsOfBatch(rows, b) ==
    SubSeq(rows, (b - 1) * batch_size + 1,
           IF b * batch_size <= Len(rows) THEN b * batch_size ELSE Len(rows))

InputHeadlines ==
    LET rows == WellFormedRows(csv_header, csv_rows)
    IN  [r \in 1..Len(rows) |-> ArticleOf(csv_header, rows[r]).Headline]

\* C24: with batch_size >= 1 the well-formed rows are handed to _process_batch one batch at a time
\* in source order, every batch holding batch_size rows except possibly a last
\* one of 1 to batch_size - 1 rows, and the Fact_Document rows are in the order
\* of the well-formed rows of the source.
BatchesInSourceOrder ==
    LET rows == WellFormedRows(csv_header, csv_rows)
    IN  (batch_size >= 1) =>
        /\ (pc \in {"batch", "final batch"}) =>
              /\ chunk_df = RowsOfBatch(rows, batch_count)
              /\ total_rows = (batch_count - 1) * batch_size + Len(chunk_df)
              /\ Len(processed_batches) = batch_count - 1
              /\ (pc = "batch") => (Len(chunk_df) = batch_size)
              /\ (pc = "final batch") =>
                    /\ Len(chunk_df) \in 1..(batch_size - 1)
                    /\ total_rows = Len(rows)
        /\ \A b \in 1..Len(processed_batches) :
              processed_batches[b] = TaggedBatch(csv_header, RowsOfBatch(rows, b))
        /\ (pc = "finalizing") => (total_rows = Len(rows))
        /\ TablesBuilt =>
              /\ Len(all_tables.Fact_Document) = Len(rows)
              /\ \A r \in 1..Len(rows) :
                    /\ all_tables.Fact_Document[r].Headline = clean_value(InputHeadlines[r])
                    /\ all_tables.Fact_Document[r].Date_Key =
                           FactDateKey(ArticleOf(csv_header, rows[r]).Date)

\* a completed run with batch_size 2 over three well-formed rows of three
\* headlines: a batch of two and a last batch of one
BatchesInSourceOrderWitness ==
    /\ Completed
    /\ batch_size = 2
    /\ batch_count = 2
    /\ Len(processed_batches[1]) = 2
    /\ Len(processed_batches[2]) = 1
    /\ Len(InputHeadlines) = 3
    /\ Cardinality({InputHeadlines[r] : r \in 1..3}) = 3

\* a last batch of fewer than batch_size rows on its way to _process_batch
PartialLastBatch ==
    ~(/\ pc = "final batch"
      /\ batch_size = 2
      /\ Len(chunk_df) = 1
      /\ batch_count = 2)

\* C25: in the tables of a completed run every Date_Key of Fact_Document, the
\* sentinel 19000101 of the dates that do not parse included, is the Date_Key
\* of a Dim_Time row.
FactDateKeysInDimTime ==
    Completed =>
        \A r \in 1..Len(all_tables.Fact_Document) :
            all_tables.Fact_Document[r].Date_Key \in DateKeysOf(all_tables.Dim_Time)

\* what the code keeps of C25: the Date_Key of a document whose date parses
\* is the Date_Key of a Dim_Time row, and so is the sentinel in a run none of
\* whose dates parses
ParsedDateKeysInDimTime ==
    Completed =>
        \A r \in 1..Len(all_tables.Fact_Document) :
            \/ all_tables.Fact_Document[r].Date_Key \in DateKeysOf(all_tables.Dim_Time)
            \/ /\ all_tables.Fact_Document[r].Date_Key = SentinelDateKey
               /\ \E q \in 1..Len(InputDates) : to_datetime(InputDates[q]).ok

\* a completed run none of whose dates parses: Dim_Time is built from the
\* documents and holds the sentinel
SentinelOnlyRun ==
    ~(/\ Completed
      /\ Len(InputDates) >= 1
      /\ \A q \in 1..Len(InputDates) : ~to_datetime(InputDates[q]).ok
      /\ DateKeysOf(all_tables.Dim_Time) = {SentinelDateKey})

\* the Source values of the well-formed rows, as the file has them
InputSources ==
    LET rows == WellFormedRows(csv_header, csv_rows)
    IN  [r \in 1..Len(rows) |-> ArticleOf(csv_header, rows[r]).Source]

\* the rows of a Dim_Source that carry a name
SourceRowsOf(dim_source, source_name) ==
    {k \in 1..Len(dim_source) : dim_source[k].Source_Name = source_name}

\* C26: the fact row of a document whose trimmed source passes the source
\* filter has the Source_Key of the Dim_Source row of that trimmed name and
\* that name as its Source_Name; the fallback key 1 is for the documents whose
\* source is not in Dim_Source.
FactSourceKeys ==
    Completed =>
        \A r \in 1..Len(InputSources) :
            ValidSource(Strip(InputSources[r])) =>
                /\ \E k \in SourceRowsOf(all_tables.Dim_Source, Strip(InputSources[r])) :
                      all_tables.Fact_Document[r].Source_Key =
                          all_tables.Dim_Source[k].Source_Key
                /\ all_tables.Fact_Document[r].Source_Name = Strip(InputSources[r])

\* what the code keeps of C26: the same for the documents whose source has no
\* surrounding whitespace; every other document has the key 1 and the name of
\* the Dim_Source row of key 1
FactSourceKeysUntrimmed ==
    Completed =>
        \A r \in 1..Len(InputSources) :
            IF ValidSource(InputSources[r]) /\ Strip(InputSources[r]) = InputSources[r]
            THEN /\ \E k \in SourceRowsOf(all_tables.Dim_Source, InputSources[r]) :
                       all_tables.Fact_Document[r].Source_Key =
                           all_tables.Dim_Source[k].Source_Key
                 /\ all_tables.Fact_Document[r].Source_Name = InputSources[r]
            ELSE /\ all_tables.Fact_Document[r].Source_Key = 1
                 /\ \E k \in 1..Len(all_tables.Dim_Source) :
                       /\ all_tables.Dim_Source[k].Source_Key = 1
                       /\ all_tables.Fact_Document[r].Source_Name =
                              all_tables.Dim_Source[k].Source_Name

\* a completed run where the document of source ' Stat News ' has the key and
\* the name of the Dim_Source row 'FDA.gov'
StatNewsFiledUnderFda ==
    ~(/\ Completed
      /\ \E r \in 1..Len(InputSources) :
            /\ InputSources[r] # Strip(InputSources[r])
            /\ ValidSource(Strip(InputSources[r]))
            /\ Strip(InputSources[r]) \in SourceNamesOf(all_tables.Dim_Source)
            /\ all_tables.Fact_Document[r].Source_Key = 1
            /\ all_tables.Fact_Document[r].Source_Name # Strip(InputSources[r]))

(***************************************************************************)
(* The bridge rows of a document of several entities.                      *)
(***************************************************************************)
\* what build_bridge_fact_entity resolves the k-th entity of document r to
ResolvedEntity(r, k) == ResolveEntity(Strip(br_articles[r].extracted_entities[k]), br_dim_entity)

\* Dim_Entity as a run leaves it for the documents: one row per normalized
\* identity, and a row of the identity of every entity of every document
DimEntityCoversDocuments ==
    /\ \A i, j \in 1..Len(br_dim_entity) :
          i # j => normalize_entity_name(br_dim_entity[i].Entity_Name)
                      # normalize_entity_name(br_dim_entity[j].Entity_Name)
    /\ \A r \in 1..Len(br_articles) :
          \A k \in 1..Len(br_articles[r].extracted_entities) :
              \E i \in 1..Len(br_dim_entity) :
                  normalize_entity_name(br_dim_entity[i].Entity_Name)
                      = normalize_entity_name(br_articles[r].extracted_entities[k])

\* C27: Bridge_Fact_Entity has at most one row per (Fact_ID, Entity_Key), and
\* every entity of a document is linked to the Dim_Entity row of its own
\* normalized identity, so that two entities of one document with different
\* normalized identities never get the same Entity_Key.
OneBridgeRowPerEntityKey ==
    (br_pc = "built" /\ DimEntityCoversDocuments) =>
        /\ \A i, j \in 1..Len(br_bridge) :
              i # j => <<br_bridge[i].Fact_ID, br_bridge[i].Entity_Key>>
                          # <<br_bridge[j].Fact_ID, br_bridge[j].Entity_Key>>
        /\ \A r \in 1..Len(br_articles) :
              \A k \in 1..Len(br_articles[r].extracted_entities) :
                  \E i \in 1..Len(br_dim_entity) :
                      /\ br_dim_entity[i].Entity_Key = ResolvedEntity(r, k).key
                      /\ normalize_entity_name(br_dim_entity[i].Entity_Name)
                             = normalize_entity_name(br_articles[r].extracted_entities[k])
        /\ \A r \in 1..Len(br_articles) :
              \A k, m \in 1..Len(br_articles[r].extracted_entities) :
                  normalize_entity_name(br_articles[r].extracted_entities[k])
                        # normalize_entity_name(br_articles[r].extracted_entities[m])
                      => ResolvedEntity(r, k).key # ResolvedEntity(r, m).key

\* what the code keeps of C27: an entity found by the exact match or by the
\* normalized match is linked to the row of its own normalized identity, and
\* two such entities of one document with different identities get different
\* keys
OneBridgeRowPerMatchedEntity ==
    (br_pc = "built" /\ DimEntityCoversDocuments) =>
        /\ \A r \in 1..Len(br_articles) :
              \A k \in 1..Len(br_articles[r].extracted_entities) :
                  ResolvedEntity(r, k).tier \in {1, 2} =>
                      \E i \in 1..Len(br_dim_entity) :
                          /\ br_dim_entity[i].Entity_Key = ResolvedEntity(r, k).key
                          /\ normalize_entity_name(br_dim_entity[i].Entity_Name)
                                 = normalize_entity_name(br_articles[r].extracted_entities[k])
        /\ \A r \in 1..Len(br_articles) :
              \A k, m \in 1..Len(br_articles[r].extracted_entities) :
                  (/\ normalize_entity_name(br_articles[r].extracted_entities[k])
                         # normalize_entity_name(br_articles[r].extracted_entities[m])
                   /\ ResolvedEntity(r, k).tier \in {1, 2}
                   /\ ResolvedEntity(r, m).tier \in {1, 2})
                      => ResolvedEntity(r, k).key # ResolvedEntity(r, m).key

\* the document of the entities Reata Alliance and Reata Labs, bridged to a
\* Dim_Entity of the rows Reata Alliance and Reata Pharmaceuticals: two bridge
\* rows of one Fact_ID and the Entity_Key of Reata Alliance
ReataLabsFiledUnderAlliance ==
    ~(/\ br_pc = "built"
      /\ DimEntityCoversDocuments
      /\ Len(br_dim_entity) = 2
      /\ Len(br_articles) = 1
      /\ Len(br_articles[1].extracted_entities) = 2
      /\ Len(br_bridge) = 2
      /\ br_bridge[1] = br_bridge[2])

(***************************************************************************)
(* A second call on the same BatchProcessor (specification SpecReuse).     *)
(***************************************************************************)
\* the well-formed rows of the file of the current call, processed
OwnRows == TaggedBatch(csv_header, WellFormedRows(csv_header, csv_rows))

\* the display names of the entities extracted from rows
ExtractedNamesOf(rows) ==
    UNION {{rows[r].extracted_entities[k] : k \in 1..Len(rows[r].extracted_entities)}
              : r \in 1..Len(rows)}

\* C28: a call of process_csv_to_star_schema returns tables built from the
\* CSV of that call only: after an earlier completed call on the same
\* BatchProcessor, Fact_Document still has one row per well-formed row of the
\* call's own input and the dimensions hold only members seen in that input.
SecondCallOwnInputOnly ==
    (run = 2 /\ Completed) =>
        /\ Len(all_tables.Fact_Document) = Len(OwnRows)
        /\ DateKeysOf(all_tables.Dim_Time) \subseteq DateKeysOf(build_dim_time(OwnRows).dim_time)
        /\ SourceNamesOf(all_tables.Dim_Source) \subseteq SourceNamesOf(build_dim_source(OwnRows).dim_source)
        /\ EntityNamesOf(all_tables.Dim_Entity) \subseteq ExtractedNamesOf(OwnRows)

\* the same for a call on a new BatchProcessor
FirstCallOwnInputOnly ==
    (run = 1 /\ Completed) =>
        /\ Len(all_tables.Fact_Document) = Len(OwnRows)
        /\ DateKeysOf(all_tables.Dim_Time) \subseteq DateKeysOf(build_dim_time(OwnRows).dim_time)
        /\ SourceNamesOf(all_tables.Dim_Source) \subseteq SourceNamesOf(build_dim_source(OwnRows).dim_source)
        /\ EntityNamesOf(all_tables.Dim_Entity) \subseteq ExtractedNamesOf(OwnRows)

\* what the second call returns after a call that completed: the facts of the
\* earlier call's rows, then those of its own rows, and dimensions that hold
\* the members of the earlier call's dimensions
SecondCallKeepsFirst ==
    (run = 2 /\ Completed /\ first_tables # NoTables) =>
        /\ Len(all_tables.Fact_Document) = Len(first_tables.Fact_Document) + Len(OwnRows)
        /\ \A r \in 1..Len(first_tables.Fact_Document) :
              all_tables.Fact_Document[r].Headline = first_tables.Fact_Document[r].Headline
        /\ DateKeysOf(first_tables.Dim_Time) \ {SentinelDateKey}
              \subseteq DateKeysOf(all_tables.Dim_Time)
        /\ SourceNamesOf(first_tables.Dim_Source) \subseteq SourceNamesOf(all_tables.Dim_Source)
        /\ EntityNamesOf(first_tables.Dim_Entity) \subseteq EntityNamesOf(all_tables.Dim_Entity)

\* a second call on a file of one row, after a call on a file of two: three
\* facts and a source that the file of the second call does not have
SecondCallReturnsEarlierRows ==
    ~(/\ run = 2
      /\ Completed
      /\ Len(OwnRows) = 1
      /\ Len(all_tables.Fact_Document) = 3
      /\ SourceNamesOf(all_tables.Dim_Source) \ SourceNamesOf(build_dim_source(OwnRows).dim_source) # {})

(***************************************************************************)
(* Fact_IDs and the bridge rows of a run.                                  *)
(***************************************************************************)
\* the Tag_Keys that Dim_Tag gives the matched tags of a processed row
TagKeysOfRow(row, dim_tag) ==
    {dim_tag[k].Tag_Key : k \in {k \in 1..Len(dim_tag) :
                                    \E t \in 1..Len(row.matched_tags) :
                                        dim_tag[k].Tag_Name = row.matched_tags[t]}}

\* the Entity_Keys that Dim_Entity gives the extracted entities of a processed
\* row, by the tiers of build_bridge_fact_entity
EntityKeysOfRow(row, dim_entity) ==
    LET resolved == {ResolveEntity(Strip(row.extracted_entities[k]), dim_entity) :
                        k \in {k \in 1..Len(row.extracted_entities) :
                                  Strip(row.extracted_entities[k]) # <<>>}}
    IN  {found.key : found \in {found \in resolved : found.tier > 0}}

\* the keys of the bridge rows of a Fact_ID
BridgeTagKeysOf(fact_id) ==
    {all_tables.Bridge_Fact_Tag[k].Tag_Key :
        k \in {k \in 1..Len(all_tables.Bridge_Fact_Tag) :
                  all_tables.Bridge_Fact_Tag[k].Fact_ID = fact_id}}
BridgeEntityKeysOf(fact_id) ==
    {all_tables.Bridge_Fact_Entity[k].Entity_Key :
        k \in {k \in 1..Len(all_tables.Bridge_Fact_Entity) :
                  all_tables.Bridge_Fact_Entity[k].Fact_ID = fact_id}}

\* C29: the Fact_IDs of Fact_Document are pairwise distinct, 1000 plus the
\* position of the row in the concatenated input, and every row of
\* Bridge_Fact_Tag and of Bridge_Fact_Entity has the Fact_ID of the fact of
\* the document whose matched tags or extracted entities made it.
FactIdsIdentifyDocuments ==
    TablesBuilt =>
        /\ Len(all_tables.Fact_Document) = Len(OwnRows)
        /\ \A r \in 1..Len(all_tables.Fact_Document) :
              /\ all_tables.Fact_Document[r].Fact_ID = 1000 + (r - 1)
              /\ all_tables.Fact_Document[r].Headline = clean_value(OwnRows[r].Headline)
              /\ BridgeTagKeysOf(all_tables.Fact_Document[r].Fact_ID)
                     = TagKeysOfRow(OwnRows[r], all_tables.Dim_Tag)
              /\ BridgeEntityKeysOf(all_tables.Fact_Document[r].Fact_ID)
                     = EntityKeysOfRow(OwnRows[r], all_tables.Dim_Entity)
        /\ \A r, q \in 1..Len(all_tables.Fact_Document) :
              r # q => all_tables.Fact_Document[r].Fact_ID # all_tables.Fact_Document[q].Fact_ID
        /\ \A k \in 1..Len(all_tables.Bridge_Fact_Tag) :
              \E r \in 1..Len(all_tables.Fact_Document) :
                  all_tables.Bridge_Fact_Tag[k].Fact_ID = all_tables.Fact_Document[r].Fact_ID
        /\ \A k \in 1..Len(all_tables.Bridge_Fact_Entity) :
              \E r \in 1..Len(all_tables.Fact_Document) :
                  all_tables.Bridge_Fact_Entity[k].Fact_ID = all_tables.Fact_Document[r].Fact_ID

\* a completed run over three documents in two batches: two of them have
\* different tags in Bridge_Fact_Tag, two of them different entities in
\* Bridge_Fact_Entity
FactIdsWitness ==
    /\ Completed
    /\ Len(processed_batches) = 2
    /\ Len(all_tables.Fact_Document) = 3
    /\ \E r, q \in 1000..1002 :
          /\ BridgeTagKeysOf(r) # {}
          /\ BridgeTagKeysOf(q) # {}
          /\ BridgeTagKeysOf(r) # BridgeTagKeysOf(q)
    /\ \E r, q \in 1000..1002 :
          /\ BridgeEntityKeysOf(r) # {}
          /\ BridgeEntityKeysOf(q) # {}
          /\ BridgeEntityKeysOf(r) # BridgeEntityKeysOf(q)

(***************************************************************************)
(* An input without a well-formed data row.                                *)
(***************************************************************************)
NoWellFormedRow == WellFormedRows(csv_header, csv_rows) = <<>>

\* what a call on an input without a well-formed row does, whatever its batch
\* size: no batch, the ValueError 'No processed batches found' where the
\* tables would be built, no output file
NoRowsNoTables ==
    /\ [](NoWellFormedRow =>
             /\ batch_count = 0
             /\ processed_batches = <<>>
             /\ pc \notin {"batch", "final batch", "saving", "done"}
             /\ all_tables = NoTables
             /\ written = <<>>
             /\ ~rejected_saved
             /\ (pc = "failed" => error \in {"FileNotFoundError", "ValueError"}))
    /\ [][(NoWellFormedRow /\ pc = "finalizing")
             => (pc' = "failed" /\ error' = "ValueError" /\ UNCHANGED outputVars)]_vars

\* C30: with batch_size >= 1, on an input with a header and no well-formed
\* data row (no row, or malformed rows only) process_csv_to_star_schema
\* processes no batch, raises the ValueError 'No processed batches found' where
\* it would build the tables, and writes no output file.
NoRowsNoTablesAtPositiveSize ==
    /\ []((batch_size >= 1 /\ NoWellFormedRow) =>
             /\ batch_count = 0
             /\ processed_batches = <<>>
             /\ pc \notin {"batch", "final batch", "saving", "done"}
             /\ all_tables = NoTables
             /\ written = <<>>
             /\ ~rejected_saved
             /\ (pc = "failed" => error \in {"FileNotFoundError", "ValueError"}))
    /\ [][(batch_size >= 1 /\ NoWellFormedRow /\ pc = "finalizing")
             => (pc' = "failed" /\ error' = "ValueError" /\ UNCHANGED outputVars)]_vars

\* the call has raised the ValueError on an input whose rows are all
\* malformed, its batch size being 1 or more
NoRowsWitness ==
    /\ pc = "failed"
    /\ error = "ValueError"
    /\ batch_size >= 1
    /\ Len(csv_rows) >= 2
    /\ NoWellFormedRow
    /\ pos = Len(csv_rows)

\* with batch_size 0 a malformed row hands an empty chunk to _process_batch:
\* the call on malformed rows only processes a batch for each and ends in the
\* KeyError of build_dim_time, not in the ValueError
EmptyBatchesKeyError ==
    ~(/\ pc = "failed"
      /\ error = "KeyError"
      /\ batch_size = 0
      /\ csv_rows # <<>>
      /\ NoWellFormedRow
      /\ batch_count = Len(csv_rows)
      /\ finalizations = 1)

\* the call has raised the ValueError on an input without data rows
EmptyInputRaises ==
    ~(/\ pc = "failed"
      /\ error = "ValueError"
      /\ csv_rows = <<>>)
=============================================================================
